---- MODULE Spec2Model ----
(***************************************************************************)
(* Verification model of the memorization app's text-alignment library     *)
(* (AlignmentEngine, MetricsCalculator, TextAligner) and of its recitation *)
(* matcher (matchRecitation, similarity, damerauLevenshtein, normalize).   *)
(*                                                                         *)
(* A string is a sequence of characters; a character is a one-letter       *)
(* TLA+ string, or the name of a code point that has no ASCII letter       *)
(* ("fatha", "teh_marbuta", ...).  A nullable field holds <<>> for null    *)
(* and <<v>> for the value v.  A fraction is a record [num, den].          *)
(***************************************************************************)
EXTENDS Integers, Sequences, FiniteSets, TLC

VARIABLES
    pc,              \* which call is in progress and how far it has got
    options,         \* AlignmentEngine.options, as the constructor left it
    referenceText,   \* align()'s first argument
    hypothesisText,  \* align()'s second argument
    alignment,       \* the AlignedToken[] that align() returned
    metrics,         \* the WERMetrics that calculateWER() returned
    cer,             \* what calculateCER() returned
    originalText,    \* matchRecitation's originalText
    transcriptTokens,        \* the cumulative transcript, as tokens
    threshold,               \* matchRecitation's threshold
    useArabicNormalization,  \* matchRecitation's useArabicNormalization
    matchResult,     \* the MatchResult of the latest matchRecitation call
    simA,            \* similarity's first argument
    simB,            \* similarity's second argument
    simResult,       \* what similarity(simA, simB) returned
    distResult,      \* what damerauLevenshtein(simA, simB) returned
    item,            \* MemorizationDetailPage.item: the content practised
    currentTranscript,       \* the page's currentTranscript
    accuracy,        \* the page's accuracy, in percent
    revealedWords,   \* the page's RevealedWord[]
    canSkipWord,     \* the page's canSkipWord
    failedAttempts,  \* the page's failedAttempts
    pageMatchResult, \* the page's matchResult field
    lastTranscriptLength,    \* the page's lastTranscriptLength
    recognition,     \* the service's recognizer and the state of its session
    isListening,     \* the value of the service's isListening subject
    targetText,      \* the service's targetText
    lastCorrectIndex,        \* the service's lastCorrectIndex
    accumulatedTranscript,   \* the service's accumulatedTranscript
    startedWhileActive       \* recognition.start() was called on a running session

alignVars == <<options, referenceText, hypothesisText, alignment, metrics, cer>>

matchVars == <<originalText, transcriptTokens, threshold, useArabicNormalization, matchResult>>

simVars == <<simA, simB, simResult, distResult>>

pageVars == <<item, currentTranscript, accuracy, revealedWords, canSkipWord,
              failedAttempts, pageMatchResult, lastTranscriptLength>>

speechVars == <<recognition, isListening, targetText, lastCorrectIndex,
                accumulatedTranscript, startedWhileActive>>

vars == <<pc, alignVars, matchVars, simVars, pageVars, speechVars>>

----------------------------------------------------------------------------
(* Bounds *)

\* longest text of the alignment engine's inputs, in words
MaxWords == 3

\* longest caller-built alignment handed to calculateWER
MaxGivenOps == 4

\* the longest alignment handed to calculateCER
MaxCharOps == 2

\* longest reference text of the recitation matcher, in words
MaxRefWords == 2

\* longest transcript, in tokens
MaxTranscript == 3

\* longest argument of a direct similarity call, in characters
MaxSimLen == 3

----------------------------------------------------------------------------
(* Generic helpers *)

Null == <<>>

Some(v) == <<v>>

BoundedSeq(S, n) == UNION {[1..k -> S] : k \in 0..n}

Max(a, b) == IF a >= b THEN a ELSE b

Min(a, b) == IF a <= b THEN a ELSE b

RECURSIVE MapSeq(_, _)
MapSeq(F(_), s) == IF s = <<>> THEN <<>> ELSE <<F(Head(s))>> \o MapSeq(F, Tail(s))

Frac(n, d) == [num |-> n, den |-> d]

\* a/b <= c/d, a/b = c/d for fractions with positive denominators
FracLeq(x, y) == x.num * y.den <= y.num * x.den

FracEq(x, y) == x.num * y.den = y.num * x.den

\* no matchRecitation call has been made
MatcherIdle ==
    /\ originalText = <<>>
    /\ transcriptTokens = <<>>
    /\ threshold = Frac(0, 1)
    /\ useArabicNormalization = FALSE
    /\ matchResult = Null

\* no direct similarity call has been made
SimilarityIdle ==
    /\ simA = <<>>
    /\ simB = <<>>
    /\ simResult = Null
    /\ distResult = Null

\* no practice page is open
PageIdle ==
    /\ item = Null
    /\ currentTranscript = <<>>
    /\ accuracy = Frac(0, 1)
    /\ revealedWords = <<>>
    /\ canSkipWord = FALSE
    /\ failedAttempts = 0
    /\ pageMatchResult = Null
    /\ lastTranscriptLength = 0

\* no SpeechRecognitionService has been built
SpeechIdle ==
    /\ recognition = Null
    /\ isListening = FALSE
    /\ targetText = <<>>
    /\ lastCorrectIndex = -1
    /\ accumulatedTranscript = <<>>
    /\ startedWhileActive = FALSE

\* no TextAligner has been built
AlignerIdle ==
    /\ options = Null
    /\ referenceText = <<>>
    /\ hypothesisText = <<>>
    /\ alignment = <<>>
    /\ metrics = Null
    /\ cer = Null

----------------------------------------------------------------------------
(* Characters *)

IsWhitespace(c) == c = " "

\* String.prototype.toLowerCase on one character
LowerChar(c) ==
    CASE c = "A" -> "a"
      [] c = "B" -> "b"
      [] c = "T" -> "t"
      [] c = "H" -> "h"
      [] OTHER -> c

ToLowerCase(s) == MapSeq(LowerChar, s)

\* U+064B..U+065F and U+0670: the Arabic diacritics
IsArabicDiacritic(c) ==
    c \in {"fatha", "shadda", "madda_above", "hamza_above", "hamza_below", "superscript_alef"}

\* the letter-variant folding shared by the two normalizeArabic functions
FoldAlefTaYa(c) ==
    CASE c \in {"alef_madda", "alef_hamza_above", "alef_hamza_below", "alef_wasla"} -> "alef"
      [] c = "teh_marbuta" -> "heh"
      [] c = "alef_maksura" -> "yeh"
      [] OTHER -> c

----------------------------------------------------------------------------
(* AlignmentEngine: tokenizer and normalizers *)

\* String.prototype.trim
RECURSIVE TrimStart(_)
TrimStart(s) ==
    IF s # <<>> /\ IsWhitespace(Head(s)) THEN TrimStart(Tail(s)) ELSE s

RECURSIVE TrimEnd(_)
TrimEnd(s) ==
    IF s # <<>> /\ IsWhitespace(s[Len(s)])
    THEN TrimEnd(SubSeq(s, 1, Len(s) - 1))
    ELSE s

Trim(s) == TrimEnd(TrimStart(s))

\* String.prototype.split(/\s+/): the pieces between maximal whitespace
\* runs, empty pieces included ("" splits into [""], " a" into ["", "a"])
RECURSIVE SplitWhitespaceFrom(_, _, _, _)
SplitWhitespaceFrom(s, i, cur, acc) ==
    IF i > Len(s) THEN Append(acc, cur)
    ELSE IF IsWhitespace(s[i])
         THEN IF i > 1 /\ IsWhitespace(s[i - 1])
              THEN SplitWhitespaceFrom(s, i + 1, cur, acc)
              ELSE SplitWhitespaceFrom(s, i + 1, <<>>, Append(acc, cur))
         ELSE SplitWhitespaceFrom(s, i + 1, Append(cur, s[i]), acc)

SplitWhitespace(s) == SplitWhitespaceFrom(s, 1, <<>>, <<>>)

FilterNonEmpty(tokens) == SelectSeq(tokens, LAMBDA t : Len(t) > 0)

defaultTokenizer(text) == FilterNonEmpty(SplitWhitespace(Trim(text)))

\* A call either returns a value or raises.
Returned(v) == [raised |-> FALSE, value |-> v]

Raised == [raised |-> TRUE, value |-> <<>>]

\* defaultNormalizer reads this.options.caseSensitive, where `this` is the
\* object the function was called on.  Reading a property of undefined
\* raises a TypeError.
defaultNormalizer(receiver, token) ==
    IF "options" \in DOMAIN receiver
    THEN Returned(IF receiver.options.caseSensitive THEN token ELSE ToLowerCase(token))
    ELSE Raised

\* The caller-supplied normalizer of the library's examples: strips the
\* Arabic diacritics and folds the alef, ta marbuta and alef maksura variants.
exampleNormalizeArabic(token) ==
    MapSeq(FoldAlefTaYa, SelectSeq(token, LAMBDA c : ~IsArabicDiacritic(c)))

\* a ?? b on a nullable field
Nullish(field, default) == IF field = Null THEN default ELSE field[1]

\* new AlignmentEngine(options): the caller's options with the defaults
\* filled in.  The default tokenizer and normalizer are stored as bare
\* functions (this.defaultTokenizer, this.defaultNormalizer).
AlignmentEngineConstructor(given) ==
    [caseSensitive |-> Nullish(given.caseSensitive, FALSE),
     tokenizer |-> "defaultTokenizer",
     normalizer |-> Nullish(given.normalizer, "defaultNormalizer"),
     includeConfidence |-> FALSE]

\* this.options.normalizer(token): the function stored in options.normalizer
\* called as a method of the options object.
CallNormalizer(opts, token) ==
    IF opts.normalizer = "defaultNormalizer"
    THEN defaultNormalizer(opts, token)
    ELSE Returned(exampleNormalizeArabic(token))

\* tokens.map(token => this.options.normalizer(token)); the first call that
\* raises ends the map.
RECURSIVE NormalizeAll(_, _)
NormalizeAll(opts, tokens) ==
    IF tokens = <<>> THEN Returned(<<>>)
    ELSE LET first == CallNormalizer(opts, Head(tokens))
         IN  IF first.raised THEN Raised
             ELSE LET rest == NormalizeAll(opts, Tail(tokens))
                  IN  IF rest.raised THEN Raised
                      ELSE Returned(<<first.value>> \o rest.value)

processText(opts, text) == NormalizeAll(opts, defaultTokenizer(text))

----------------------------------------------------------------------------
(* AlignmentEngine: edit-distance matrix and backtracking *)

MATCH == "match"

SUBSTITUTION == "substitution"

INSERTION == "insertion"

DELETION == "deletion"

AlignmentOperation == {MATCH, SUBSTITUTION, INSERTION, DELETION}

\* the three initialisation loops: every cell {0, MATCH}, then row 0 as
\* insertions, then column 0 as deletions (so cell (0,0) ends as a deletion)
InitialMatrix(rows, cols) ==
    [i \in 0..(rows - 1), j \in 0..(cols - 1) |->
        IF j = 0 THEN [cost |-> i, operation |-> DELETION]
        ELSE IF i = 0 THEN [cost |-> j, operation |-> INSERTION]
        ELSE [cost |-> 0, operation |-> MATCH]]

\* FillCell with the insertion candidate left out of the first comparison
FillCell_InsertionNotCompared(matrix, reference, hypothesis, i, j) ==
    LET isMatch == reference[i] = hypothesis[j]
        substitutionCost == matrix[i - 1, j - 1].cost + (IF isMatch THEN 0 ELSE 1)
        deletionCost == matrix[i - 1, j].cost + 1
        insertionCost == matrix[i, j - 1].cost + 1
    IN  IF substitutionCost <= deletionCost
        THEN [cost |-> substitutionCost,
              operation |-> IF isMatch THEN MATCH ELSE SUBSTITUTION]
        ELSE IF deletionCost < insertionCost
             THEN [cost |-> deletionCost, operation |-> DELETION]
             ELSE [cost |-> insertionCost, operation |-> INSERTION]

\* The body of the fill loop for cell (i, j): the cheapest of the three
\* candidates, the diagonal winning ties, and the deletion only when it is
\* strictly cheaper than the insertion.
FillCell(matrix, reference, hypothesis, i, j) ==
    LET isMatch == reference[i] = hypothesis[j]
        substitutionCost == matrix[i - 1, j - 1].cost + (IF isMatch THEN 0 ELSE 1)
        deletionCost == matrix[i - 1, j].cost + 1
        insertionCost == matrix[i, j - 1].cost + 1
    IN  IF substitutionCost <= deletionCost /\ substitutionCost <= insertionCost
        THEN [cost |-> substitutionCost,
              operation |-> IF isMatch THEN MATCH ELSE SUBSTITUTION]
        ELSE IF deletionCost < insertionCost
             THEN [cost |-> deletionCost, operation |-> DELETION]
             ELSE [cost |-> insertionCost, operation |-> INSERTION]

\* the nested fill loops, row by row from cell (i, j) on
RECURSIVE FillFrom(_, _, _, _, _)
FillFrom(matrix, reference, hypothesis, i, j) ==
    IF i > Len(reference) THEN matrix
    ELSE IF j > Len(hypothesis) THEN FillFrom(matrix, reference, hypothesis, i + 1, 1)
    ELSE FillFrom([matrix EXCEPT ![i, j] = FillCell(matrix, reference, hypothesis, i, j)],
                  reference, hypothesis, i, j + 1)

computeEditDistance(reference, hypothesis) ==
    FillFrom(InitialMatrix(Len(reference) + 1, Len(hypothesis) + 1),
             reference, hypothesis, 1, 1)

\* AlignedTokenAt with the matrix row and column as the token indices
AlignedTokenAt_IndexFromOne(operation, referenceTokens, hypothesisTokens, i, j) ==
    [reference |-> IF operation = INSERTION THEN Null ELSE Some(referenceTokens[i]),
     hypothesis |-> IF operation = DELETION THEN Null ELSE Some(hypothesisTokens[j]),
     operation |-> operation,
     referenceIndex |-> IF operation = INSERTION THEN Null ELSE Some(i),
     hypothesisIndex |-> IF operation = DELETION THEN Null ELSE Some(j)]

\* the AlignedToken that backtrack() puts in front of the alignment at (i, j)
AlignedTokenAt(operation, referenceTokens, hypothesisTokens, i, j) ==
    CASE operation \in {MATCH, SUBSTITUTION} ->
            [reference |-> Some(referenceTokens[i]),
             hypothesis |-> Some(hypothesisTokens[j]),
             operation |-> operation,
             referenceIndex |-> Some(i - 1),
             hypothesisIndex |-> Some(j - 1)]
      [] operation = DELETION ->
            [reference |-> Some(referenceTokens[i]),
             hypothesis |-> Null,
             operation |-> DELETION,
             referenceIndex |-> Some(i - 1),
             hypothesisIndex |-> Null]
      [] operation = INSERTION ->
            [reference |-> Null,
             hypothesis |-> Some(hypothesisTokens[j]),
             operation |-> INSERTION,
             referenceIndex |-> Null,
             hypothesisIndex |-> Some(j - 1)]

\* the while loop of backtrack(), from (i, j) with `acc` already unshifted
RECURSIVE BacktrackFrom(_, _, _, _, _, _)
BacktrackFrom(matrix, referenceTokens, hypothesisTokens, i, j, acc) ==
    IF ~(i > 0 \/ j > 0) THEN acc
    ELSE LET operation == matrix[i, j].operation
             token == AlignedTokenAt(operation, referenceTokens, hypothesisTokens, i, j)
         IN  BacktrackFrom(matrix, referenceTokens, hypothesisTokens,
                           IF operation = INSERTION THEN i ELSE i - 1,
                           IF operation = DELETION THEN j ELSE j - 1,
                           <<token>> \o acc)

backtrack(matrix, referenceTokens, hypothesisTokens) ==
    BacktrackFrom(matrix, referenceTokens, hypothesisTokens,
                  Len(referenceTokens), Len(hypothesisTokens), <<>>)

\* the alignment of two processed token lists (align() after processText)
AlignTokens(referenceTokens, hypothesisTokens) ==
    IF Len(referenceTokens) = 0 /\ Len(hypothesisTokens) = 0
    THEN <<>>
    ELSE backtrack(computeEditDistance(referenceTokens, hypothesisTokens),
                   referenceTokens, hypothesisTokens)

\* AlignmentEngine.align: returns the alignment, or raises what processText raises
align(opts, refText, hypText) ==
    LET referenceTokens == processText(opts, refText)
    IN  IF referenceTokens.raised THEN Raised
        ELSE LET hypothesisTokens == processText(opts, hypText)
             IN  IF hypothesisTokens.raised THEN Raised
                 ELSE Returned(AlignTokens(referenceTokens.value, hypothesisTokens.value))

----------------------------------------------------------------------------
(* MetricsCalculator *)

CountOperation(tokens, operation) ==
    Cardinality({k \in 1..Len(tokens) : tokens[k].operation = operation})

\* calculateWER dividing by the hypothesis length
calculateWER_OverHypothesisWords(tokens) ==
    LET substitutions == CountOperation(tokens, SUBSTITUTION)
        deletions == CountOperation(tokens, DELETION)
        insertions == CountOperation(tokens, INSERTION)
        matches == CountOperation(tokens, MATCH)
        totalReferenceWords == matches + substitutions + deletions
        totalHypothesisWords == matches + substitutions + insertions
    IN  [wer |-> IF totalHypothesisWords > 0
                 THEN Frac(substitutions + deletions + insertions, totalHypothesisWords)
                 ELSE Frac(0, 1),
         substitutions |-> substitutions,
         deletions |-> deletions,
         insertions |-> insertions,
         matches |-> matches,
         totalReferenceWords |-> totalReferenceWords,
         totalHypothesisWords |-> totalHypothesisWords,
         accuracy |-> IF totalHypothesisWords > 0
                      THEN Frac(matches * 100, totalHypothesisWords)
                      ELSE Frac(0, 1)]

\* calculateWER with the insertions left out of the error count
calculateWER_InsertionsUncounted(tokens) ==
    LET substitutions == CountOperation(tokens, SUBSTITUTION)
        deletions == CountOperation(tokens, DELETION)
        insertions == CountOperation(tokens, INSERTION)
        matches == CountOperation(tokens, MATCH)
        totalReferenceWords == matches + substitutions + deletions
        totalHypothesisWords == matches + substitutions + insertions
    IN  [wer |-> IF totalReferenceWords > 0
                 THEN Frac(substitutions + deletions, totalReferenceWords)
                 ELSE Frac(0, 1),
         substitutions |-> substitutions,
         deletions |-> deletions,
         insertions |-> insertions,
         matches |-> matches,
         totalReferenceWords |-> totalReferenceWords,
         totalHypothesisWords |-> totalHypothesisWords,
         accuracy |-> IF totalReferenceWords > 0
                      THEN Frac(matches * 100, totalReferenceWords)
                      ELSE Frac(0, 1)]

calculateWER(tokens) ==
    LET substitutions == CountOperation(tokens, SUBSTITUTION)
        deletions == CountOperation(tokens, DELETION)
        insertions == CountOperation(tokens, INSERTION)
        matches == CountOperation(tokens, MATCH)
        totalReferenceWords == matches + substitutions + deletions
        totalHypothesisWords == matches + substitutions + insertions
    IN  [wer |-> IF totalReferenceWords > 0
                 THEN Frac(substitutions + deletions + insertions, totalReferenceWords)
                 ELSE Frac(0, 1),
         substitutions |-> substitutions,
         deletions |-> deletions,
         insertions |-> insertions,
         matches |-> matches,
         totalReferenceWords |-> totalReferenceWords,
         totalHypothesisWords |-> totalHypothesisWords,
         accuracy |-> IF totalReferenceWords > 0
                      THEN Frac(matches * 100, totalReferenceWords)
                      ELSE Frac(0, 1)]

\* token.reference?.length || 0: the length of a string field, 0 when null
LengthOrZero(field) == IF field = Null THEN 0 ELSE Len(field[1])

\* calculateCER counting a substitution by the length of its reference token
calculateCER_SubstitutionByReference(tokens) ==
    LET RefLen(k) == LengthOrZero(tokens[k].reference)
        ErrorOf(k) ==
            IF tokens[k].operation = MATCH THEN 0
            ELSE IF tokens[k].operation = SUBSTITUTION THEN RefLen(k)
            ELSE IF tokens[k].operation = DELETION THEN RefLen(k)
            ELSE IF tokens[k].operation = INSERTION THEN LengthOrZero(tokens[k].hypothesis)
            ELSE 0
        SumTo[k \in 0..Len(tokens)] ==
            IF k = 0 THEN [totalChars |-> 0, errorChars |-> 0]
            ELSE [totalChars |-> SumTo[k - 1].totalChars + RefLen(k),
                  errorChars |-> SumTo[k - 1].errorChars + ErrorOf(k)]
        sums == SumTo[Len(tokens)]
    IN  IF sums.totalChars > 0 THEN Frac(sums.errorChars, sums.totalChars) ELSE Frac(0, 1)

\* calculateCER: totalChars and errorChars summed over the tokens in order
calculateCER(tokens) ==
    LET RefLen(k) == LengthOrZero(tokens[k].reference)
        HypLen(k) == LengthOrZero(tokens[k].hypothesis)
        ErrorOf(k) ==
            IF tokens[k].operation = MATCH THEN 0
            ELSE IF tokens[k].operation = SUBSTITUTION THEN Max(RefLen(k), HypLen(k))
            ELSE IF tokens[k].operation = DELETION THEN RefLen(k)
            ELSE IF tokens[k].operation = INSERTION THEN HypLen(k)
            ELSE 0
        SumTo[k \in 0..Len(tokens)] ==
            IF k = 0 THEN [totalChars |-> 0, errorChars |-> 0]
            ELSE [totalChars |-> SumTo[k - 1].totalChars + RefLen(k),
                  errorChars |-> SumTo[k - 1].errorChars + ErrorOf(k)]
        sums == SumTo[Len(tokens)]
    IN  IF sums.totalChars > 0 THEN Frac(sums.errorChars, sums.totalChars) ELSE Frac(0, 1)

NoMetrics == [wer |-> Frac(0, 1), substitutions |-> 0, deletions |-> 0, insertions |-> 0,
              matches |-> 0, totalReferenceWords |-> 0, totalHypothesisWords |-> 0,
              accuracy |-> Frac(0, 1)]

----------------------------------------------------------------------------
(* TextAligner *)

\* TextAligner.compare up to the metrics: engine.align, then calculateWER
compare(opts, refText, hypText) ==
    LET aligned == align(opts, refText, hypText)
    IN  IF aligned.raised THEN Raised
        ELSE Returned([alignment |-> aligned.value,
                       metrics |-> calculateWER(aligned.value)])

----------------------------------------------------------------------------
(* The alignment library's inputs *)

RECURSIVE JoinWith(_, _)
JoinWith(pieces, sep) ==
    IF pieces = <<>> THEN <<>>
    ELSE IF Len(pieces) = 1 THEN pieces[1]
    ELSE pieces[1] \o sep \o JoinWith(Tail(pieces), sep)

AlignWords == {<<"a">>, <<"A">>, <<"b">>}

Scenario1Reference ==
    <<"T", "h", "e", " ", "q", "u", "i", "c", "k", " ", "b", "r", "o", "w", "n", " ",
      "f", "o", "x", " ", "j", "u", "m", "p", "s", " ", "o", "v", "e", "r", " ",
      "t", "h", "e", " ", "l", "a", "z", "y", " ", "d", "o", "g">>

Scenario1Hypothesis ==
    <<"T", "h", "e", " ", "q", "u", "i", "c", "k", " ", "b", "r", "o", "w", "n", " ",
      "f", "o", "x", " ", "j", "u", "m", "p", "e", "d", " ", "o", "v", "e", "r", " ",
      "t", "h", "e", " ", "l", "a", "z", "y", " ", "c", "a", "t">>

\* texts with leading, trailing and repeated whitespace, and with characters
\* the example normalizer changes
OddTexts ==
    {<<" ">>,
     <<" ", "a", " ", " ", "b", " ">>,
     <<"b", "fatha", " ", "teh_marbuta">>,
     <<"b", " ", "heh">>,
     <<"fatha">>}

AlignTexts ==
    {JoinWith(ws, <<" ">>) : ws \in BoundedSeq(AlignWords, MaxWords)}
        \cup OddTexts \cup {Scenario1Reference, Scenario1Hypothesis}

\* what a caller passes to new TextAligner(...) / compareText(...)
GivenOptions ==
    [caseSensitive : {Null, Some(TRUE)},
     normalizer : {Null, Some("exampleNormalizeArabic")}]

\* a well-formed alignment with the given operations, as a caller of
\* calculateMetrics(alignment) may build one
RECURSIVE AlignmentOfOps(_, _, _)
AlignmentOfOps(ops, i, j) ==
    IF ops = <<>> THEN <<>>
    ELSE LET op == Head(ops)
             token == [reference |-> IF op = INSERTION THEN Null ELSE Some(<<"a">>),
                       hypothesis |-> IF op = DELETION THEN Null
                                      ELSE IF op = MATCH THEN Some(<<"a">>) ELSE Some(<<"b">>),
                       operation |-> op,
                       referenceIndex |-> IF op = INSERTION THEN Null ELSE Some(i),
                       hypothesisIndex |-> IF op = DELETION THEN Null ELSE Some(j)]
         IN  <<token>> \o AlignmentOfOps(Tail(ops),
                                         IF op = INSERTION THEN i ELSE i + 1,
                                         IF op = DELETION THEN j ELSE j + 1)

\* 5 matches, 2 substitutions, 1 deletion, no insertion
Scenario6Ops ==
    <<MATCH, MATCH, SUBSTITUTION, MATCH, DELETION, MATCH, SUBSTITUTION, MATCH>>

GivenAlignments ==
    {AlignmentOfOps(ops, 0, 0) : ops \in BoundedSeq(AlignmentOperation, MaxGivenOps) \cup {Scenario6Ops}}

----------------------------------------------------------------------------
(* The alignment library as a state machine *)

\* A TextAligner has been built and the texts of the next call chosen.
InitAlign ==
    /\ pc = "start"
    /\ PageIdle
    /\ SpeechIdle
    /\ options \in {AlignmentEngineConstructor(given) : given \in GivenOptions}
    /\ referenceText \in AlignTexts
    /\ hypothesisText \in AlignTexts
    /\ alignment = <<>>
    /\ metrics = NoMetrics
    /\ cer = Null
    /\ MatcherIdle
    /\ SimilarityIdle

\* The caller holds an alignment of its own to be measured.
InitGiven ==
    /\ pc = "given"
    /\ PageIdle
    /\ SpeechIdle
    /\ options = AlignmentEngineConstructor([caseSensitive |-> Null, normalizer |-> Null])
    /\ referenceText = <<>>
    /\ hypothesisText = <<>>
    /\ alignment \in GivenAlignments
    /\ metrics = NoMetrics
    /\ cer = Null
    /\ MatcherIdle
    /\ SimilarityIdle

\* TextAligner.align(referenceText, hypothesisText)
Align ==
    /\ pc = "start"
    /\ LET result == align(options, referenceText, hypothesisText)
       IN  IF result.raised
           THEN pc' = "raised" /\ alignment' = alignment
           ELSE pc' = "aligned" /\ alignment' = result.value
    /\ UNCHANGED <<options, referenceText, hypothesisText, metrics, cer, matchVars, simVars,
                 pageVars, speechVars>>

\* TextAligner.calculateMetrics(alignment)
CalculateMetrics ==
    /\ pc \in {"aligned", "given"}
    /\ metrics' = calculateWER(alignment)
    /\ pc' = IF pc = "given" THEN "measuredGiven" ELSE "measured"
    /\ UNCHANGED <<options, referenceText, hypothesisText, alignment, cer, matchVars, simVars,
                 pageVars, speechVars>>

\* TextAligner.compare(referenceText, hypothesisText) / compareText(...)
Compare ==
    /\ pc = "start"
    /\ LET result == compare(options, referenceText, hypothesisText)
       IN  IF result.raised
           THEN pc' = "raised" /\ alignment' = alignment /\ metrics' = metrics
           ELSE /\ pc' = "measured"
                /\ alignment' = result.value.alignment
                /\ metrics' = result.value.metrics
    /\ UNCHANGED <<options, referenceText, hypothesisText, cer, matchVars, simVars,
                 pageVars, speechVars>>

InitAlignLibrary == InitAlign \/ InitGiven

NextAlign == Align \/ CalculateMetrics \/ Compare

SpecAlign == InitAlignLibrary /\ [][NextAlign]_vars

----------------------------------------------------------------------------
(* Properties of the alignment library *)

\* align() has returned the alignment now in `alignment`
AlignReturned == pc \in {"aligned", "measured"}

\* the token lists align() worked on
ReferenceTokens == processText(options, referenceText).value

HypothesisTokens == processText(options, hypothesisText).value

\* the reference slots of an alignment, in order, each with its index
ReferenceSlots(tokens) ==
    LET kept == SelectSeq(tokens, LAMBDA t : t.reference # Null \/ t.referenceIndex # Null)
    IN  [k \in 1..Len(kept) |-> <<kept[k].reference, kept[k].referenceIndex>>]

HypothesisSlots(tokens) ==
    LET kept == SelectSeq(tokens, LAMBDA t : t.hypothesis # Null \/ t.hypothesisIndex # Null)
    IN  [k \in 1..Len(kept) |-> <<kept[k].hypothesis, kept[k].hypothesisIndex>>]

\* which slots an entry with the given operation carries
SlotsFitOperation(t) ==
    /\ (t.reference # Null) = (t.operation # INSERTION)
    /\ (t.referenceIndex # Null) = (t.operation # INSERTION)
    /\ (t.hypothesis # Null) = (t.operation # DELETION)
    /\ (t.hypothesisIndex # Null) = (t.operation # DELETION)

\* C1: the alignment align() returns reconstructs both inputs: its non-null
\* reference slots, in order, are the reference tokens with referenceIndex
\* 0..m-1, its non-null hypothesis slots the hypothesis tokens with
\* hypothesisIndex 0..n-1; Match and Substitution carry both slots,
\* Deletion only the reference slot, Insertion only the hypothesis slot.
C1_AlignmentReconstructsInputs ==
    AlignReturned =>
        /\ ReferenceSlots(alignment) =
              [k \in 1..Len(ReferenceTokens) |-> <<Some(ReferenceTokens[k]), Some(k - 1)>>]
        /\ HypothesisSlots(alignment) =
              [k \in 1..Len(HypothesisTokens) |-> <<Some(HypothesisTokens[k]), Some(k - 1)>>]
        /\ \A k \in 1..Len(alignment) :
              /\ alignment[k].operation \in AlignmentOperation
              /\ SlotsFitOperation(alignment[k])

\* an alignment with a deletion, matches and an insertion has been returned
C1_Witness ==
    /\ pc = "aligned"
    /\ {MATCH, DELETION, INSERTION} \subseteq {alignment[k].operation : k \in 1..Len(alignment)}

\* The minimum edit distance of two token lists, by the textbook row
\* recurrence: NextRow turns the distances from a[1..i-1] to every prefix of
\* b into the distances from a[1..i].
RECURSIVE LevenshteinRowFrom(_, _, _, _, _)
LevenshteinRowFrom(prev, x, b, j, row) ==
    IF j > Len(b) THEN row
    ELSE LevenshteinRowFrom(prev, x, b, j + 1,
            Append(row, Min(Min(prev[j + 1] + 1, row[j] + 1),
                            prev[j] + (IF x = b[j] THEN 0 ELSE 1))))

RECURSIVE LevenshteinRows(_, _, _, _)
LevenshteinRows(a, b, i, prev) ==
    IF i > Len(a) THEN prev
    ELSE LevenshteinRows(a, b, i + 1, LevenshteinRowFrom(prev, a[i], b, 1, <<prev[1] + 1>>))

Levenshtein(a, b) ==
    LevenshteinRows(a, b, 1, [j \in 1..(Len(b) + 1) |-> j - 1])[Len(b) + 1]

EditCount(tokens) == Len(SelectSeq(tokens, LAMBDA t : t.operation # MATCH))

\* C2: the number of non-Match entries of the alignment align() returns is
\* the Levenshtein distance of the two token lists, and an entry is tagged
\* Match exactly when its reference and hypothesis tokens are equal.
C2_EditCountIsLevenshtein ==
    AlignReturned =>
        /\ EditCount(alignment) = Levenshtein(ReferenceTokens, HypothesisTokens)
        /\ \A k \in 1..Len(alignment) :
              (alignment[k].operation = MATCH) <=>
                  (/\ alignment[k].reference # Null
                   /\ alignment[k].reference = alignment[k].hypothesis)

\* an alignment where substituting is not the whole story: an insertion or
\* a deletion sits beside matches and a substitution
C2_Witness ==
    /\ pc = "aligned"
    /\ \E k \in 1..Len(alignment) : alignment[k].operation = MATCH
    /\ \E k \in 1..Len(alignment) : alignment[k].operation = SUBSTITUTION
    /\ \E k \in 1..Len(alignment) : alignment[k].operation = DELETION
    /\ Len(ReferenceTokens) = 3

\* the engine was built by new TextAligner() / compareText(ref, hyp): the
\* caller supplied neither tokenizer nor normalizer
DefaultOptions == options.normalizer = "defaultNormalizer"

\* C3: on an engine built with default options align() returns an alignment
\* and never raises, whatever the two texts.
C3_DefaultAlignNeverRaises ==
    DefaultOptions => pc # "raised"

Scenario1 ==
    /\ options = AlignmentEngineConstructor([caseSensitive |-> Null, normalizer |-> Null])
    /\ referenceText = Scenario1Reference
    /\ hypothesisText = Scenario1Hypothesis

\* C4: with default options, comparing "The quick brown fox jumps over the
\* lazy dog" with "The quick brown fox jumped over the lazy cat" gives 7
\* matches, 2 substitutions (jumps->jumped, dog->cat), no insertion and no
\* deletion, so wer = 2/9 and accuracy = 7/9 x 100.
C4_Scenario1Metrics ==
    (Scenario1 /\ pc # "start") =>
        /\ pc \in {"aligned", "measured"}
        /\ calculateWER(alignment).matches = 7
        /\ calculateWER(alignment).substitutions = 2
        /\ calculateWER(alignment).insertions = 0
        /\ calculateWER(alignment).deletions = 0
        /\ FracEq(calculateWER(alignment).wer, Frac(2, 9))
        /\ FracEq(calculateWER(alignment).accuracy, Frac(700, 9))
        /\ \E k \in 1..Len(alignment) :
              /\ alignment[k].operation = SUBSTITUTION
              /\ alignment[k].reference = Some(<<"j", "u", "m", "p", "s">>)
              /\ alignment[k].hypothesis = Some(<<"j", "u", "m", "p", "e", "d">>)
        /\ \E k \in 1..Len(alignment) :
              /\ alignment[k].operation = SUBSTITUTION
              /\ alignment[k].reference = Some(<<"d", "o", "g">>)
              /\ alignment[k].hypothesis = Some(<<"c", "a", "t">>)

Measured == pc \in {"measured", "measuredGiven"}

OpsOf(tokens) == [k \in 1..Len(tokens) |-> tokens[k].operation]

HowMany(tokens, operation) == Len(SelectSeq(OpsOf(tokens), LAMBDA op : op = operation))

\* C5: calculateWER returns the four operation counts, totalReferenceWords
\* = matches+substitutions+deletions, totalHypothesisWords =
\* matches+substitutions+insertions, wer = (substitutions+deletions+
\* insertions)/totalReferenceWords and accuracy = matches/
\* totalReferenceWords x 100, both 0 when totalReferenceWords = 0; 5
\* matches, 2 substitutions, 1 deletion give totalReferenceWords = 8, wer =
\* 3/8 and accuracy = 62.5.
C5_WERFormulas ==
    Measured =>
        LET m == HowMany(alignment, MATCH)
            s == HowMany(alignment, SUBSTITUTION)
            d == HowMany(alignment, DELETION)
            i == HowMany(alignment, INSERTION)
        IN  /\ metrics.matches = m /\ metrics.substitutions = s
            /\ metrics.deletions = d /\ metrics.insertions = i
            /\ metrics.totalReferenceWords = m + s + d
            /\ metrics.totalHypothesisWords = m + s + i
            /\ metrics.wer.den > 0 /\ metrics.accuracy.den > 0
            /\ IF m + s + d = 0
               THEN metrics.wer.num = 0 /\ metrics.accuracy.num = 0
               ELSE /\ FracEq(metrics.wer, Frac(s + d + i, m + s + d))
                    /\ FracEq(metrics.accuracy, Frac(m * 100, m + s + d))
            /\ (OpsOf(alignment) = Scenario6Ops =>
                    /\ metrics.totalReferenceWords = 8
                    /\ FracEq(metrics.wer, Frac(3, 8))
                    /\ FracEq(metrics.accuracy, Frac(125, 2)))

\* the 5/2/1/0 alignment has been measured
C5_Witness ==
    /\ pc = "measuredGiven"
    /\ OpsOf(alignment) = Scenario6Ops

\* C6 as claimed: wer >= 0, and wer = 0 exactly when the normalized
\* hypothesis tokens equal the normalized reference tokens, an empty
\* reference with a non-empty hypothesis included.
C6_WerZeroIffEqual ==
    pc = "measured" =>
        /\ metrics.wer.num >= 0 /\ metrics.wer.den > 0
        /\ (metrics.wer.num = 0) <=> (HypothesisTokens = ReferenceTokens)

\* C6 as amended: wer >= 0; when the reference has at least one token, wer
\* = 0 exactly when the normalized hypothesis tokens equal the normalized
\* reference tokens; when the reference has no token, wer = 0 whatever the
\* hypothesis.
C6_WerZeroIffEqualOrNoReference ==
    pc = "measured" =>
        /\ metrics.wer.num >= 0 /\ metrics.wer.den > 0
        /\ (metrics.wer.num = 0) <=>
              (HypothesisTokens = ReferenceTokens \/ Len(ReferenceTokens) = 0)

\* the reference has no token, the hypothesis has some, and wer is 0
C6_Witness ==
    /\ pc = "measured"
    /\ Len(ReferenceTokens) = 0
    /\ Len(HypothesisTokens) > 0
    /\ metrics.wer.num = 0

\* C7: for every alignment align() produces, wer lies between 0 and 1 and
\* accuracy between 0 and 100.
C7_WerAndAccuracyInRange ==
    pc = "measured" =>
        /\ FracLeq(Frac(0, 1), metrics.wer) /\ FracLeq(metrics.wer, Frac(1, 1))
        /\ FracLeq(Frac(0, 1), metrics.accuracy) /\ FracLeq(metrics.accuracy, Frac(100, 1))

----------------------------------------------------------------------------
(* Recitation matcher: normalize.ts *)

\* general categories M (combining marks), Nd, P and S of the characters used
IsMark(c) ==
    c \in {"combining_acute", "fatha", "shadda", "madda_above", "hamza_above",
           "hamza_below", "superscript_alef"}

IsDigit(c) == c \in {"0", "1", "2"}

IsPunctOrSymbol(c) == c \in {",", "!", "_", "-", ".", "?"}

\* every other character is a letter (the tatweel is a modifier letter)
IsLetter(c) == ~IsMark(c) /\ ~IsDigit(c) /\ ~IsPunctOrSymbol(c) /\ ~IsWhitespace(c)

\* the NFKD decomposition of one character
DecomposeChar(c) ==
    CASE c = "e_acute" -> <<"e", "combining_acute">>
      [] c = "alef_madda" -> <<"alef", "madda_above">>
      [] c = "alef_hamza_above" -> <<"alef", "hamza_above">>
      [] c = "alef_hamza_below" -> <<"alef", "hamza_below">>
      [] c = "waw_hamza" -> <<"waw", "hamza_above">>
      [] c = "yeh_hamza" -> <<"yeh", "hamza_above">>
      [] OTHER -> <<c>>

RECURSIVE NFKD(_)
NFKD(s) == IF s = <<>> THEN <<>> ELSE DecomposeChar(Head(s)) \o NFKD(Tail(s))

\* the marks of U+0300..U+036F and U+064B..U+065F, U+0670 and the tatweel U+0640
IsStrippedMark(c) ==
    c \in {"combining_acute", "fatha", "shadda", "madda_above", "hamza_above",
           "hamza_below", "superscript_alef", "tatweel"}

\* replace(/[\p{P}\p{S}]+/gu, ' '): each maximal run becomes one space
RECURSIVE PunctRunsToSpace(_, _)
PunctRunsToSpace(s, inRun) ==
    IF s = <<>> THEN <<>>
    ELSE IF IsPunctOrSymbol(Head(s))
         THEN (IF inRun THEN <<>> ELSE <<" ">>) \o PunctRunsToSpace(Tail(s), TRUE)
         ELSE <<Head(s)>> \o PunctRunsToSpace(Tail(s), FALSE)

\* replace(/\s+/g, ' ')
RECURSIVE CollapseWhitespace(_, _)
CollapseWhitespace(s, inRun) ==
    IF s = <<>> THEN <<>>
    ELSE IF IsWhitespace(Head(s))
         THEN (IF inRun THEN <<>> ELSE <<" ">>) \o CollapseWhitespace(Tail(s), TRUE)
         ELSE <<Head(s)>> \o CollapseWhitespace(Tail(s), FALSE)

normalizeForMatch(s) ==
    LET nfkd == NFKD(s)
        stripped == SelectSeq(nfkd, LAMBDA c : ~IsStrippedMark(c))
        lower == ToLowerCase(stripped)
        noPunct == PunctRunsToSpace(lower, FALSE)
    IN  Trim(CollapseWhitespace(noPunct, FALSE))

\* the five replacements of normalizeArabic on one character
FoldArabicChar(c) ==
    CASE c \in {"alef_madda", "alef_hamza_above", "alef_hamza_below", "alef_wasla"} -> "alef"
      [] c = "teh_marbuta" -> "heh"
      [] c = "alef_maksura" -> "yeh"
      [] c = "waw_hamza" -> "waw"
      [] c = "yeh_hamza" -> "yeh"
      [] OTHER -> c

normalizeArabic(text) == MapSeq(FoldArabicChar, normalizeForMatch(text))

\* text.match(/[\p{L}\p{M}]+|\p{Nd}+/gu) ?? []: the maximal runs of letters
\* and marks, and the maximal runs of digits, left to right
RECURSIVE TokenizeFrom(_, _, _, _)
TokenizeFrom(text, i, cur, acc) ==
    LET flush == IF cur = <<>> THEN acc ELSE Append(acc, cur)
    IN  IF i > Len(text) THEN flush
        ELSE LET c == text[i]
                 wordChar == IsLetter(c) \/ IsMark(c)
                 curIsDigits == cur # <<>> /\ IsDigit(cur[1])
             IN  IF wordChar
                 THEN IF curIsDigits
                      THEN TokenizeFrom(text, i + 1, <<c>>, flush)
                      ELSE TokenizeFrom(text, i + 1, Append(cur, c), acc)
                 ELSE IF IsDigit(c)
                 THEN IF cur # <<>> /\ ~curIsDigits
                      THEN TokenizeFrom(text, i + 1, <<c>>, flush)
                      ELSE TokenizeFrom(text, i + 1, Append(cur, c), acc)
                 ELSE TokenizeFrom(text, i + 1, <<>>, flush)

tokenizeOriginal(text) == TokenizeFrom(text, 1, <<>>, <<>>)

----------------------------------------------------------------------------
(* Recitation matcher: damerau.ts *)

\* DamerauCell without the transposition step
DamerauCell_NoTransposition(dp, a, b, i, j) ==
    LET cost == IF a[i] = b[j] THEN 0 ELSE 1
    IN  Min(Min(dp[i - 1, j] + 1, dp[i, j - 1] + 1), dp[i - 1, j - 1] + cost)

\* the body of the fill loop of damerauLevenshtein for cell (i, j)
DamerauCell(dp, a, b, i, j) ==
    LET cost == IF a[i] = b[j] THEN 0 ELSE 1
        standard == Min(Min(dp[i - 1, j] + 1, dp[i, j - 1] + 1), dp[i - 1, j - 1] + cost)
    IN  IF i > 1 /\ j > 1 /\ a[i] = b[j - 1] /\ a[i - 1] = b[j]
        THEN Min(standard, dp[i - 2, j - 2] + 1)
        ELSE standard

\* the inner loop: row i from column j on (j <= bl: the cell is in the table)
RECURSIVE DamerauFillRow(_, _, _, _, _)
DamerauFillRow(dp, a, b, i, j) ==
    IF <<i, j>> \notin DOMAIN dp THEN dp
    ELSE DamerauFillRow([dp EXCEPT ![i, j] = DamerauCell(dp, a, b, i, j)], a, b, i, j + 1)

\* the outer loop: the rows from i on (i <= al: the row is in the table)
RECURSIVE DamerauFillFrom(_, _, _, _)
DamerauFillFrom(dp, a, b, i) ==
    IF <<i, 1>> \notin DOMAIN dp THEN dp
    ELSE DamerauFillFrom(DamerauFillRow(dp, a, b, i, 1), a, b, i + 1)

damerauLevenshtein(a, b) ==
    IF Len(a) = 0 THEN Len(b)
    ELSE IF Len(b) = 0 THEN Len(a)
    ELSE IF a = b THEN 0
    ELSE LET dp0 == [i \in 0..Len(a), j \in 0..Len(b) |->
                        IF j = 0 THEN i ELSE IF i = 0 THEN j ELSE 0]
         IN  DamerauFillFrom(dp0, a, b, 1)[Len(a), Len(b)]

\* similarity dividing by the shorter length, and not clamped
similarity_OverShorterLength(a, b) ==
    IF Len(a) = 0 /\ Len(b) = 0 THEN Frac(1, 1)
    ELSE IF Len(a) = 0 \/ Len(b) = 0 THEN Frac(0, 1)
    ELSE LET dist == damerauLevenshtein(a, b)
             minLen == Min(Len(a), Len(b))
         IN  Frac(minLen - dist, minLen)

\* Math.max(0, 1 - dist / maxLen), as a fraction
similarity(a, b) ==
    IF Len(a) = 0 /\ Len(b) = 0 THEN Frac(1, 1)
    ELSE IF Len(a) = 0 \/ Len(b) = 0 THEN Frac(0, 1)
    ELSE LET dist == damerauLevenshtein(a, b)
             maxLen == Max(Len(a), Len(b))
         IN  IF maxLen - dist < 0 THEN Frac(0, 1) ELSE Frac(maxLen - dist, maxLen)

----------------------------------------------------------------------------
(* Recitation matcher: matcher.ts *)

\* Number(x.toFixed(4)): x to the nearest ten-thousandth, halves upwards
ToFixed4(x) == Frac((2 * x.num * 10000 + x.den) \div (2 * x.den), 10000)

FracLess(x, y) == x.num * y.den < y.num * x.den

\* Candidates that offers the single token at the pointer and no longer span
Candidates_SingleWordOnly(originalTokens, normOriginalTokens, j) ==
    LET fits == {span \in 1..1 : ~(j + span - 1 >= Len(originalTokens))}
    IN  [span \in 1..Cardinality(fits) |->
            [span |-> span,
             textRaw |-> JoinWith(SubSeq(originalTokens, j + 1, j + span), <<" ">>),
             textNorm |-> JoinWith(SubSeq(normOriginalTokens, j + 1, j + span), <<" ">>)]]

\* Candidates whose reveal text is taken from the normalized tokens
Candidates_RawFromNormalized(originalTokens, normOriginalTokens, j) ==
    LET fits == {span \in 1..3 : ~(j + span - 1 >= Len(originalTokens))}
    IN  [span \in 1..Cardinality(fits) |->
            [span |-> span,
             textRaw |-> JoinWith(SubSeq(normOriginalTokens, j + 1, j + span), <<" ">>),
             textNorm |-> JoinWith(SubSeq(normOriginalTokens, j + 1, j + span), <<" ">>)]]

\* the candidate spans at pointer j: spans 1, 2, 3 while they fit
Candidates(originalTokens, normOriginalTokens, j) ==
    LET fits == {span \in 1..3 : ~(j + span - 1 >= Len(originalTokens))}
    IN  [span \in 1..Cardinality(fits) |->
            [span |-> span,
             textRaw |-> JoinWith(SubSeq(originalTokens, j + 1, j + span), <<" ">>),
             textNorm |-> JoinWith(SubSeq(normOriginalTokens, j + 1, j + span), <<" ">>)]]

\* BestCandidate in which a candidate also replaces the best on an equal score
RECURSIVE BestCandidate_LastWinsTies(_, _, _)
BestCandidate_LastWinsTies(t, candidates, best) ==
    IF candidates = <<>> THEN best
    ELSE LET candidate == Head(candidates)
             sim == similarity(t, candidate.textNorm)
         IN  BestCandidate_LastWinsTies(t, Tail(candidates),
                IF FracLeq(best.sim, sim)
                THEN [span |-> candidate.span, sim |-> sim,
                      textRaw |-> candidate.textRaw, textNorm |-> candidate.textNorm]
                ELSE best)

\* the scoring loop: a candidate replaces the best only with a greater score
RECURSIVE BestCandidate(_, _, _)
BestCandidate(t, candidates, best) ==
    IF candidates = <<>> THEN best
    ELSE LET candidate == Head(candidates)
             sim == similarity(t, candidate.textNorm)
         IN  BestCandidate(t, Tail(candidates),
                IF FracLess(best.sim, sim)
                THEN [span |-> candidate.span, sim |-> sim,
                      textRaw |-> candidate.textRaw, textNorm |-> candidate.textNorm]
                ELSE best)

NoBest == [span |-> 0, sim |-> Frac(-1, 1), textRaw |-> <<>>, textNorm |-> <<>>]

NormalizeFn(useArabic, text) ==
    IF useArabic THEN normalizeArabic(text) ELSE normalizeForMatch(text)

\* LoopStart with the pointer on the second reference token
LoopStart_PointerAtOne(originalTokens) ==
    [j |-> 1,
     matches |-> <<>>,
     unmatched |-> <<>>,
     revealedMask |-> [k \in 1..Len(originalTokens) |-> FALSE]]

\* the locals of matchRecitation before its loop
LoopStart(originalTokens) ==
    [j |-> 0,
     matches |-> <<>>,
     unmatched |-> <<>>,
     revealedMask |-> [k \in 1..Len(originalTokens) |-> FALSE]]

\* MatchStep that steps the pointer back after a transcript token that
\* matched nothing
MatchStep_RewindsOnMismatch(loop, i, tRaw, originalTokens, normOriginalTokens, thresh, useArabic) ==
    IF loop.j >= Len(originalTokens)
    THEN [loop EXCEPT !.unmatched = Append(@, i)]
    ELSE LET t == NormalizeFn(useArabic, tRaw)
             best == BestCandidate(t, Candidates(originalTokens, normOriginalTokens, loop.j), NoBest)
         IN  IF FracLeq(thresh, best.sim) /\ best.span > 0
             THEN [j |-> loop.j + best.span,
                   matches |-> Append(loop.matches,
                                  [transcriptIndex |-> i,
                                   originalStart |-> loop.j,
                                   originalSpan |-> best.span,
                                   revealedText |-> best.textRaw,
                                   similarity |-> ToFixed4(best.sim)]),
                   unmatched |-> loop.unmatched,
                   revealedMask |-> [k \in 1..Len(originalTokens) |->
                                        loop.revealedMask[k]
                                            \/ (loop.j < k /\ k <= loop.j + best.span)]]
             ELSE [loop EXCEPT !.unmatched = Append(@, i), !.j = Max(0, @ - 1)]

\* MatchStep that advances the pointer by one token whatever the span matched
MatchStep_AdvancesByOne(loop, i, tRaw, originalTokens, normOriginalTokens, thresh, useArabic) ==
    IF loop.j >= Len(originalTokens)
    THEN [loop EXCEPT !.unmatched = Append(@, i)]
    ELSE LET t == NormalizeFn(useArabic, tRaw)
             best == BestCandidate(t, Candidates(originalTokens, normOriginalTokens, loop.j), NoBest)
         IN  IF FracLeq(thresh, best.sim) /\ best.span > 0
             THEN [j |-> loop.j + 1,
                   matches |-> Append(loop.matches,
                                  [transcriptIndex |-> i,
                                   originalStart |-> loop.j,
                                   originalSpan |-> best.span,
                                   revealedText |-> best.textRaw,
                                   similarity |-> ToFixed4(best.sim)]),
                   unmatched |-> loop.unmatched,
                   revealedMask |-> [k \in 1..Len(originalTokens) |->
                                        loop.revealedMask[k]
                                            \/ (loop.j < k /\ k <= loop.j + best.span)]]
             ELSE [loop EXCEPT !.unmatched = Append(@, i)]

\* MatchStep that sends the pointer back to the start once the reference is
\* used up
MatchStep_RestartsAtEnd(loop, i, tRaw, originalTokens, normOriginalTokens, thresh, useArabic) ==
    IF loop.j >= Len(originalTokens)
    THEN [loop EXCEPT !.unmatched = Append(@, i), !.j = 0]
    ELSE LET t == NormalizeFn(useArabic, tRaw)
             best == BestCandidate(t, Candidates(originalTokens, normOriginalTokens, loop.j), NoBest)
         IN  IF FracLeq(thresh, best.sim) /\ best.span > 0
             THEN [j |-> loop.j + best.span,
                   matches |-> Append(loop.matches,
                                  [transcriptIndex |-> i,
                                   originalStart |-> loop.j,
                                   originalSpan |-> best.span,
                                   revealedText |-> best.textRaw,
                                   similarity |-> ToFixed4(best.sim)]),
                   unmatched |-> loop.unmatched,
                   revealedMask |-> [k \in 1..Len(originalTokens) |->
                                        loop.revealedMask[k]
                                            \/ (loop.j < k /\ k <= loop.j + best.span)]]
             ELSE [loop EXCEPT !.unmatched = Append(@, i)]

\* MatchStep that moves the pointer past the reference token a transcript
\* token failed to match
MatchStep_SkipsOnMismatch(loop, i, tRaw, originalTokens, normOriginalTokens, thresh, useArabic) ==
    IF loop.j >= Len(originalTokens)
    THEN [loop EXCEPT !.unmatched = Append(@, i)]
    ELSE LET t == NormalizeFn(useArabic, tRaw)
             best == BestCandidate(t, Candidates(originalTokens, normOriginalTokens, loop.j), NoBest)
         IN  IF FracLeq(thresh, best.sim) /\ best.span > 0
             THEN [j |-> loop.j + best.span,
                   matches |-> Append(loop.matches,
                                  [transcriptIndex |-> i,
                                   originalStart |-> loop.j,
                                   originalSpan |-> best.span,
                                   revealedText |-> best.textRaw,
                                   similarity |-> ToFixed4(best.sim)]),
                   unmatched |-> loop.unmatched,
                   revealedMask |-> [k \in 1..Len(originalTokens) |->
                                        loop.revealedMask[k]
                                            \/ (loop.j < k /\ k <= loop.j + best.span)]]
             ELSE [loop EXCEPT !.unmatched = Append(@, i), !.j = @ + 1]

\* MatchStep that matches only a similarity strictly above the threshold
MatchStep_StrictlyAboveThreshold(loop, i, tRaw, originalTokens, normOriginalTokens, thresh, useArabic) ==
    IF loop.j >= Len(originalTokens)
    THEN [loop EXCEPT !.unmatched = Append(@, i)]
    ELSE LET t == NormalizeFn(useArabic, tRaw)
             best == BestCandidate(t, Candidates(originalTokens, normOriginalTokens, loop.j), NoBest)
         IN  IF FracLess(thresh, best.sim) /\ best.span > 0
             THEN [j |-> loop.j + best.span,
                   matches |-> Append(loop.matches,
                                  [transcriptIndex |-> i,
                                   originalStart |-> loop.j,
                                   originalSpan |-> best.span,
                                   revealedText |-> best.textRaw,
                                   similarity |-> ToFixed4(best.sim)]),
                   unmatched |-> loop.unmatched,
                   revealedMask |-> [k \in 1..Len(originalTokens) |->
                                        loop.revealedMask[k]
                                            \/ (loop.j < k /\ k <= loop.j + best.span)]]
             ELSE [loop EXCEPT !.unmatched = Append(@, i)]

\* MatchStep that scores the transcript token as it was heard, not normalized
MatchStep_TranscriptNotNormalized(loop, i, tRaw, originalTokens, normOriginalTokens, thresh, useArabic) ==
    IF loop.j >= Len(originalTokens)
    THEN [loop EXCEPT !.unmatched = Append(@, i)]
    ELSE LET t == tRaw
             best == BestCandidate(t, Candidates(originalTokens, normOriginalTokens, loop.j), NoBest)
         IN  IF FracLeq(thresh, best.sim) /\ best.span > 0
             THEN [j |-> loop.j + best.span,
                   matches |-> Append(loop.matches,
                                  [transcriptIndex |-> i,
                                   originalStart |-> loop.j,
                                   originalSpan |-> best.span,
                                   revealedText |-> best.textRaw,
                                   similarity |-> ToFixed4(best.sim)]),
                   unmatched |-> loop.unmatched,
                   revealedMask |-> [k \in 1..Len(originalTokens) |->
                                        loop.revealedMask[k]
                                            \/ (loop.j < k /\ k <= loop.j + best.span)]]
             ELSE [loop EXCEPT !.unmatched = Append(@, i)]

\* MatchStep that reveals only the first token of a matched span
MatchStep_RevealsFirstOfSpan(loop, i, tRaw, originalTokens, normOriginalTokens, thresh, useArabic) ==
    IF loop.j >= Len(originalTokens)
    THEN [loop EXCEPT !.unmatched = Append(@, i)]
    ELSE LET t == NormalizeFn(useArabic, tRaw)
             best == BestCandidate(t, Candidates(originalTokens, normOriginalTokens, loop.j), NoBest)
         IN  IF FracLeq(thresh, best.sim) /\ best.span > 0
             THEN [j |-> loop.j + best.span,
                   matches |-> Append(loop.matches,
                                  [transcriptIndex |-> i,
                                   originalStart |-> loop.j,
                                   originalSpan |-> best.span,
                                   revealedText |-> best.textRaw,
                                   similarity |-> ToFixed4(best.sim)]),
                   unmatched |-> loop.unmatched,
                   revealedMask |-> [k \in 1..Len(originalTokens) |->
                                        loop.revealedMask[k]
                                            \/ k = loop.j + 1]]
             ELSE [loop EXCEPT !.unmatched = Append(@, i)]

\* MatchStep that records nothing for a token heard after the reference is
\* exhausted
MatchStep_DropsAfterExhaustion(loop, i, tRaw, originalTokens, normOriginalTokens, thresh, useArabic) ==
    IF loop.j >= Len(originalTokens)
    THEN loop
    ELSE LET t == NormalizeFn(useArabic, tRaw)
             best == BestCandidate(t, Candidates(originalTokens, normOriginalTokens, loop.j), NoBest)
         IN  IF FracLeq(thresh, best.sim) /\ best.span > 0
             THEN [j |-> loop.j + best.span,
                   matches |-> Append(loop.matches,
                                  [transcriptIndex |-> i,
                                   originalStart |-> loop.j,
                                   originalSpan |-> best.span,
                                   revealedText |-> best.textRaw,
                                   similarity |-> ToFixed4(best.sim)]),
                   unmatched |-> loop.unmatched,
                   revealedMask |-> [k \in 1..Len(originalTokens) |->
                                        loop.revealedMask[k]
                                            \/ (loop.j < k /\ k <= loop.j + best.span)]]
             ELSE [loop EXCEPT !.unmatched = Append(@, i)]

\* one iteration of the loop over the transcript: token tRaw at index i
MatchStep(loop, i, tRaw, originalTokens, normOriginalTokens, thresh, useArabic) ==
    IF loop.j >= Len(originalTokens)
    THEN [loop EXCEPT !.unmatched = Append(@, i)]
    ELSE LET t == NormalizeFn(useArabic, tRaw)
             best == BestCandidate(t, Candidates(originalTokens, normOriginalTokens, loop.j), NoBest)
         IN  IF FracLeq(thresh, best.sim) /\ best.span > 0
             THEN [j |-> loop.j + best.span,
                   matches |-> Append(loop.matches,
                                  [transcriptIndex |-> i,
                                   originalStart |-> loop.j,
                                   originalSpan |-> best.span,
                                   revealedText |-> best.textRaw,
                                   similarity |-> ToFixed4(best.sim)]),
                   unmatched |-> loop.unmatched,
                   revealedMask |-> [k \in 1..Len(originalTokens) |->
                                        loop.revealedMask[k]
                                            \/ (loop.j < k /\ k <= loop.j + best.span)]]
             ELSE [loop EXCEPT !.unmatched = Append(@, i)]

\* the loop from transcript index i up to, not including, index n
RECURSIVE MatchLoop(_, _, _, _, _, _, _, _)
MatchLoop(loop, i, n, tokens, originalTokens, normOriginalTokens, thresh, useArabic) ==
    IF ~(i < n) THEN loop
    ELSE MatchLoop(MatchStep(loop, i, tokens[i + 1], originalTokens, normOriginalTokens,
                             thresh, useArabic),
                   i + 1, n, tokens, originalTokens, normOriginalTokens, thresh, useArabic)

\* the MatchResult built from the locals after the loop
MatchResultOf(loop, originalTokens) ==
    [matches |-> loop.matches,
     revealedTokenMask |-> loop.revealedMask,
     unrevealedOriginal |->
        LET idx == SelectSeq([k \in 1..Len(originalTokens) |-> k],
                             LAMBDA k : ~loop.revealedMask[k])
        IN  [k \in 1..Len(idx) |-> originalTokens[idx[k]]],
     unmatchedTranscriptIndices |-> loop.unmatched,
     finalOriginalPointer |-> loop.j]

\* matchRecitation whose loop stops one transcript token early
matchRecitation_StopsBeforeLast(original, tokens, thresh, useArabic) ==
    LET originalTokens == tokenizeOriginal(original)
        normOriginalTokens == [k \in 1..Len(originalTokens) |->
                                  NormalizeFn(useArabic, originalTokens[k])]
    IN  MatchResultOf(MatchLoop(LoopStart(originalTokens), 0, Len(tokens) - 1, tokens,
                                originalTokens, normOriginalTokens, thresh, useArabic),
                      originalTokens)

matchRecitation(original, tokens, thresh, useArabic) ==
    LET originalTokens == tokenizeOriginal(original)
        normOriginalTokens == [k \in 1..Len(originalTokens) |->
                                  NormalizeFn(useArabic, originalTokens[k])]
    IN  MatchResultOf(MatchLoop(LoopStart(originalTokens), 0, Len(tokens), tokens,
                                originalTokens, normOriginalTokens, thresh, useArabic),
                      originalTokens)

----------------------------------------------------------------------------
(* The recitation matcher's inputs *)

RefWords == {<<"a">>, <<"b">>, <<"a", "b">>}

\* reference texts with capitals, punctuation, diacritics and digits
OddOriginals ==
    {<<"A", ",", " ", "b", "fatha", "!">>,
     <<"a", "-", "b", " ", "1", "2", "a">>,
     <<"fatha", " ", "e_acute">>,
     <<"a", " ", "b", " ", "a">>,
     <<"a", " ", "b", " ", "a", "b">>}

GenericOriginals ==
    {JoinWith(ws, <<" ">>) : ws \in BoundedSeq(RefWords, MaxRefWords)} \cup OddOriginals

\* what the recognizer may add to the transcript of a generic reference
TranscriptWords == {<<"a">>, <<"a", "b">>, <<"B", ",">>, <<"_">>}

\* thresholds: the page's 0.30 and the default 0.70
MatchConfigs ==
    {[threshold |-> Frac(3, 10), useArabic |-> TRUE],
     [threshold |-> Frac(7, 10), useArabic |-> TRUE],
     [threshold |-> Frac(7, 10), useArabic |-> FALSE]}

\* an Arabic reference with diacritics and letter variants, recited without
ArabicOriginal == <<"alef_hamza_above", "fatha", "b", " ", "b", "teh_marbuta">>

ArabicTranscript == << <<"alef", "b">>, <<"b", "heh">> >>

\* the references and transcripts of the matcher's unit tests
ToBeOriginal ==
    <<"T", "o", " ", "b", "e", " ", "o", "r", " ", "n", "o", "t", " ", "t",
       "o", " ", "b", "e", ",", " ", "t", "h", "a", "t", " ", "i", "s", " ",
       "t", "h", "e", " ", "q", "u", "e", "s", "t", "i", "o", "n">>

ToBeTranscript ==
    << <<"t", "o">>, <<"b", "e", "e">>, <<"o", "r">>,
       <<"n", "o", "t">>, <<"t", "o">>, <<"b", "e", "e">> >>

HelloWorldAgainOriginal ==
    <<"h", "e", "l", "l", "o", " ", "w", "o", "r", "l", "d", " ", "a", "g",
       "a", "i", "n">>

HelloWorldAgainTranscript == << <<"h", "e", "l", "l", "o">>, <<"w", "o", "r", "l", "d", "a", "g", "a", "i", "n">> >>

HelloWorldOriginal == <<"h", "e", "l", "l", "o", " ", "w", "o", "r", "l", "d">>

FillerTranscript == << <<"h", "e", "l", "l", "o">>, <<"u", "m">>, <<"w", "o", "r", "l", "d">> >>

\* a reference and transcript whose scores meet the thresholds 0.5 and
\* 0.6667 exactly and within rounding: similarity("c", "ca") = 1/2 and
\* similarity("ca", "c a") = 2/3
EdgeOriginal == <<"c", "a", " ", "c", " ", "a">>

EdgeTranscript == << <<"c">>, <<"c", "a">>, <<"c", "a">> >>

EdgeConfigs ==
    {[threshold |-> Frac(1, 2), useArabic |-> TRUE],
     [threshold |-> Frac(1, 2), useArabic |-> FALSE],
     [threshold |-> Frac(6667, 10000), useArabic |-> TRUE]}

\* a reference with repeated words, recited word for word
RepeatedOriginal ==
    <<"t", "o", " ", "b", "e", " ", "o", "r", " ", "n", "o", "t",
      " ", "t", "o", " ", "b", "e">>

RepeatedTranscript ==
    << <<"t", "o">>, <<"b", "e">>, <<"o", "r">>,
       <<"n", "o", "t">>, <<"t", "o">>, <<"b", "e">> >>

\* recitations that follow a fixed transcript
Scripts ==
    {[original |-> ArabicOriginal, transcript |-> ArabicTranscript, configs |-> MatchConfigs],
     [original |-> ToBeOriginal, transcript |-> ToBeTranscript, configs |-> MatchConfigs],
     [original |-> HelloWorldAgainOriginal, transcript |-> HelloWorldAgainTranscript,
      configs |-> MatchConfigs],
     [original |-> HelloWorldOriginal, transcript |-> FillerTranscript, configs |-> MatchConfigs],
     [original |-> EdgeOriginal, transcript |-> EdgeTranscript, configs |-> EdgeConfigs],
     [original |-> RepeatedOriginal, transcript |-> RepeatedTranscript,
      configs |-> MatchConfigs \cup {[threshold |-> Frac(1, 1), useArabic |-> TRUE]}]}

IsScripted(original) == \E sc \in Scripts : sc.original = original

ScriptOf(original) == (CHOOSE sc \in Scripts : sc.original = original).transcript

\* the thresholds and flags a recitation of this reference is run with
ConfigsOf(original) ==
    IF IsScripted(original)
    THEN (CHOOSE sc \in Scripts : sc.original = original).configs
    ELSE MatchConfigs

\* the tokens the next transcript update may add
NextTokens(original, tokens) ==
    IF IsScripted(original)
    THEN IF Len(tokens) < Len(ScriptOf(original))
         THEN {ScriptOf(original)[Len(tokens) + 1]}
         ELSE {}
    ELSE IF Len(tokens) < MaxTranscript THEN TranscriptWords ELSE {}

SimAlphabet == {"a", "b", "c"}

----------------------------------------------------------------------------
(* The recitation matcher as a state machine *)

\* A recitation starts: matchRecitation has run on the empty transcript.
InitMatch ==
    /\ pc = "listening"
    /\ PageIdle
    /\ SpeechIdle
    /\ originalText \in GenericOriginals \cup {sc.original : sc \in Scripts}
    /\ \E config \in ConfigsOf(originalText) :
          /\ threshold = config.threshold
          /\ useArabicNormalization = config.useArabic
    /\ transcriptTokens = <<>>
    /\ matchResult = matchRecitation(originalText, <<>>, threshold, useArabicNormalization)
    /\ AlignerIdle
    /\ SimilarityIdle

\* A caller is about to score two strings.
InitSim ==
    /\ pc = "simReady"
    /\ PageIdle
    /\ SpeechIdle
    /\ simA \in BoundedSeq(SimAlphabet, MaxSimLen)
    /\ simB \in BoundedSeq(SimAlphabet, MaxSimLen)
    /\ simResult = Null
    /\ distResult = Null
    /\ AlignerIdle
    /\ MatcherIdle

\* The recognizer adds a token and the caller re-runs matchRecitation on the
\* cumulative transcript.
Recite ==
    /\ pc = "listening"
    /\ \E token \in NextTokens(originalText, transcriptTokens) :
          /\ transcriptTokens' = Append(transcriptTokens, token)
          /\ matchResult' = matchRecitation(originalText, transcriptTokens',
                                            threshold, useArabicNormalization)
    /\ UNCHANGED <<pc, originalText, threshold, useArabicNormalization, alignVars, simVars,
                 pageVars, speechVars>>

\* similarity(simA, simB)
Similarity ==
    /\ pc = "simReady"
    /\ simResult' = similarity(simA, simB)
    /\ pc' = "simDone"
    /\ UNCHANGED <<simA, simB, distResult, alignVars, matchVars,
                 pageVars, speechVars>>

InitMatcher == InitMatch \/ InitSim

NextMatch == Recite \/ Similarity

SpecMatch == InitMatcher /\ [][NextMatch]_vars

----------------------------------------------------------------------------
(* Properties of the recitation matcher *)

InUnitRange(x) == FracLeq(Frac(0, 1), x) /\ FracLeq(x, Frac(1, 1))

\* C8: similarity(a, b) lies in [0, 1]; similarity(a, a) = 1; two empty
\* strings score 1 and a non-empty string against the empty string 0; and
\* every Match.similarity matchRecitation reports lies in [0, 1].
C8_SimilarityInUnitRange ==
    /\ pc = "simDone" =>
          /\ simResult.den > 0
          /\ InUnitRange(simResult)
          /\ (simA = simB => FracEq(simResult, Frac(1, 1)))
          /\ ((Len(simA) = 0) # (Len(simB) = 0) => FracEq(simResult, Frac(0, 1)))
    /\ pc = "listening" =>
          \A k \in 1..Len(matchResult.matches) :
              InUnitRange(matchResult.matches[k].similarity)

\* two different non-empty strings have been scored strictly between 0 and 1
C8_Witness ==
    /\ pc = "simDone"
    /\ Len(simA) > 0 /\ Len(simB) > 0 /\ simA # simB
    /\ FracLess(Frac(0, 1), simResult) /\ FracLess(simResult, Frac(1, 1))

Prefix(tokens, k) == SubSeq(tokens, 1, k)

ResultOnPrefix(k) ==
    matchRecitation(originalText, Prefix(transcriptTokens, k), threshold, useArabicNormalization)

\* C9: for a fixed reference, threshold and normalization flag, the
\* finalOriginalPointer of matchRecitation on any prefix of the transcript
\* is at most its finalOriginalPointer on the whole transcript.
C9_PointerMonotonicInPrefix ==
    pc = "listening" =>
        \A k \in 0..Len(transcriptTokens) :
            ResultOnPrefix(k).finalOriginalPointer <= matchResult.finalOriginalPointer

\* a transcript whose first token matched, a later one did not, and a still
\* later one moved the pointer on
C9_Witness ==
    /\ pc = "listening"
    /\ Len(transcriptTokens) = 3
    /\ ResultOnPrefix(1).finalOriginalPointer = 1
    /\ ResultOnPrefix(2).finalOriginalPointer = 1
    /\ matchResult.finalOriginalPointer > 1

\* C10: for any prefix t' of the transcript t the Match list and the
\* unmatched-index list of matchRecitation(ref, t') are exactly the entries
\* of matchRecitation(ref, t) with transcriptIndex < |t'|, so every mask bit
\* revealed for t' is revealed for t; with t' = t the same inputs give the
\* same result.
C10_PrefixConsistent ==
    pc = "listening" =>
        \A k \in 0..Len(transcriptTokens) :
            LET onPrefix == ResultOnPrefix(k)
            IN  /\ onPrefix.matches =
                      SelectSeq(matchResult.matches, LAMBDA m : m.transcriptIndex < k)
                /\ onPrefix.unmatchedTranscriptIndices =
                      SelectSeq(matchResult.unmatchedTranscriptIndices, LAMBDA i : i < k)
                /\ Len(onPrefix.revealedTokenMask) = Len(matchResult.revealedTokenMask)
                /\ \A bit \in 1..Len(onPrefix.revealedTokenMask) :
                      onPrefix.revealedTokenMask[bit] => matchResult.revealedTokenMask[bit]
                /\ (k = Len(transcriptTokens) => onPrefix = matchResult)

\* a transcript of three tokens with matches and an unmatched token, the
\* last token having added a match
C10_Witness ==
    /\ pc = "listening"
    /\ Len(transcriptTokens) = 3
    /\ Len(matchResult.unmatchedTranscriptIndices) > 0
    /\ Len(matchResult.matches) = 2
    /\ matchResult.matches[2].transcriptIndex = 2


\* C11: in every MatchResult each Match has originalSpan in {1,2,3}, the
\* first Match starts at 0 and each later Match starts where the previous
\* one ended, so the matched ranges never overlap and strictly advance.
C11_MatchesAdvanceWithoutOverlap ==
    pc = "listening" =>
        \A k \in 1..Len(matchResult.matches) :
            LET m == matchResult.matches[k]
            IN  /\ m.originalSpan \in {1, 2, 3}
                /\ (k = 1 => m.originalStart = 0)
                /\ (k > 1 => m.originalStart =
                                matchResult.matches[k - 1].originalStart
                                    + matchResult.matches[k - 1].originalSpan)

\* a match of two reference tokens followed by another match
C11_Witness ==
    /\ pc = "listening"
    /\ Len(matchResult.matches) >= 2
    /\ matchResult.matches[1].originalSpan = 2
    /\ matchResult.matches[2].originalStart = 2


\* the originalSpan of each match, in order
SpansOf(result) == [k \in 1..Len(result.matches) |-> result.matches[k].originalSpan]

AllRevealed(result) ==
    \A k \in 1..Len(result.revealedTokenMask) : result.revealedTokenMask[k]

\* C12: matchRecitation("hello world again", ["hello", "worldagain"], 0.70)
\* gives two matches with spans [1, 2], finalOriginalPointer = 3 and every
\* reference token revealed.
C12_BigramFallback ==
    (/\ pc = "listening"
     /\ originalText = HelloWorldAgainOriginal
     /\ transcriptTokens = HelloWorldAgainTranscript
     /\ threshold = Frac(7, 10))
    => /\ SpansOf(matchResult) = <<1, 2>>
       /\ matchResult.finalOriginalPointer = 3
       /\ Len(matchResult.revealedTokenMask) = 3
       /\ AllRevealed(matchResult)

\* the whole merged transcript has been matched, at the default flag
C12_Witness ==
    /\ pc = "listening"
    /\ originalText = HelloWorldAgainOriginal
    /\ transcriptTokens = HelloWorldAgainTranscript
    /\ threshold = Frac(7, 10)
    /\ useArabicNormalization
    /\ Len(matchResult.matches) = 2

\* C13: matchRecitation("a b", ["ab"], 0.70) records one Match whose
\* originalSpan is 2, and finalOriginalPointer = 2.
C13_ShortTail ==
    (/\ pc = "listening"
     /\ originalText = <<"a", " ", "b">>
     /\ transcriptTokens = << <<"a", "b">> >>
     /\ threshold = Frac(7, 10))
    => /\ SpansOf(matchResult) = <<2>>
       /\ matchResult.finalOriginalPointer = 2

\* C14: for the reference "To be or not to be, that is the question" and
\* the transcript to, bee, or, not, to, bee at threshold 0.70 the result has
\* at least 4 matches, at most 2 unmatched transcript indices and
\* finalOriginalPointer > 0.
C14_NearMissWordsRevealed ==
    (/\ pc = "listening"
     /\ originalText = ToBeOriginal
     /\ transcriptTokens = ToBeTranscript
     /\ threshold = Frac(7, 10))
    => /\ Len(matchResult.matches) >= 4
       /\ Len(matchResult.unmatchedTranscriptIndices) <= 2
       /\ matchResult.finalOriginalPointer > 0


\* C15: for any reference text and threshold, matchRecitation with an empty
\* transcript returns no matches, no unmatched indices, finalOriginalPointer
\* 0 and an all-false mask as long as the reference token list.
C15_EmptyTranscript ==
    (pc = "listening" /\ transcriptTokens = <<>>) =>
        /\ matchResult.matches = <<>>
        /\ matchResult.unmatchedTranscriptIndices = <<>>
        /\ matchResult.finalOriginalPointer = 0
        /\ Len(matchResult.revealedTokenMask) = Len(tokenizeOriginal(originalText))
        /\ \A k \in 1..Len(matchResult.revealedTokenMask) : ~matchResult.revealedTokenMask[k]

\* the empty transcript against a reference of several tokens
C15_Witness ==
    /\ pc = "listening"
    /\ transcriptTokens = <<>>
    /\ Len(matchResult.revealedTokenMask) >= 3
    /\ matchResult.unrevealedOriginal = tokenizeOriginal(originalText)


TokenCount == Len(tokenizeOriginal(originalText))

\* the transcript indices 0 .. n-1
IndicesUpTo(n) == [k \in 1..n |-> k - 1]

\* C16: once the pointer has reached the reference token count (at once,
\* when the reference has no token), a further transcript token is recorded
\* as unmatched, adds no Match and leaves the pointer where it is; an empty
\* reference gives no matches, every transcript index unmatched and
\* finalOriginalPointer 0.
C16_ExhaustedReferenceOnlyUnmatched ==
    [][(pc = "listening" /\ matchResult.finalOriginalPointer >= TokenCount) =>
          /\ matchResult'.matches = matchResult.matches
          /\ matchResult'.unmatchedTranscriptIndices =
                Append(matchResult.unmatchedTranscriptIndices, Len(transcriptTokens))
          /\ matchResult'.finalOriginalPointer = matchResult.finalOriginalPointer
          /\ (TokenCount = 0 =>
                /\ matchResult'.matches = <<>>
                /\ matchResult'.unmatchedTranscriptIndices = IndicesUpTo(Len(transcriptTokens'))
                /\ matchResult'.finalOriginalPointer = 0)]_vars

\* the whole reference has been matched and a later token recorded unmatched
C16_Witness ==
    /\ pc = "listening"
    /\ TokenCount > 0
    /\ matchResult.finalOriginalPointer = TokenCount
    /\ Len(matchResult.unmatchedTranscriptIndices) > 0
    /\ matchResult.unmatchedTranscriptIndices[Len(matchResult.unmatchedTranscriptIndices)]
          = Len(transcriptTokens) - 1
    /\ matchResult.matches[Len(matchResult.matches)].transcriptIndex < Len(transcriptTokens) - 1


\* the normalized text of the span of reference tokens at pointer j
NormalizedSpan(j, span) ==
    LET originalTokens == tokenizeOriginal(originalText)
    IN  JoinWith([k \in 1..span |->
                    NormalizeFn(useArabicNormalization, originalTokens[j + k])],
                 <<" ">>)

\* the spans of 1 to 3 reference tokens that fit at pointer j
SpansAt(j) == {span \in 1..3 : j + span <= TokenCount}

\* the token the step adds to the transcript, normalized
NewToken == NormalizeFn(useArabicNormalization, transcriptTokens'[Len(transcriptTokens')])

\* every candidate at the pointer scores below the threshold for the new token
NewTokenBelowThreshold ==
    \A span \in SpansAt(matchResult.finalOriginalPointer) :
        FracLess(similarity(NewToken, NormalizedSpan(matchResult.finalOriginalPointer, span)),
                 threshold)

\* C17: a transcript token whose best candidate similarity is below the
\* threshold is recorded as unmatched, reveals no reference token and leaves
\* the pointer unchanged, so the next token is scored at the same pointer:
\* the filler "um" between "hello" and "world" is unmatched and both words
\* still match.
C17_MismatchLeavesPointer ==
    [][(pc = "listening" /\ transcriptTokens' # transcriptTokens) =>
          /\ (matchResult.finalOriginalPointer < TokenCount /\ NewTokenBelowThreshold) =>
                /\ matchResult'.unmatchedTranscriptIndices =
                      Append(matchResult.unmatchedTranscriptIndices, Len(transcriptTokens))
                /\ matchResult'.matches = matchResult.matches
                /\ matchResult'.revealedTokenMask = matchResult.revealedTokenMask
                /\ matchResult'.finalOriginalPointer = matchResult.finalOriginalPointer
          /\ (originalText = HelloWorldOriginal /\ transcriptTokens' = FillerTranscript) =>
                /\ matchResult'.unmatchedTranscriptIndices = <<1>>
                /\ Len(matchResult'.matches) = 2]_vars

\* the filler word was left unmatched and the word after it matched at the
\* pointer the filler left in place
C17_Witness ==
    /\ pc = "listening"
    /\ originalText = HelloWorldOriginal
    /\ transcriptTokens = FillerTranscript
    /\ matchResult.unmatchedTranscriptIndices = <<1>>
    /\ matchResult.matches[2].transcriptIndex = 2
    /\ matchResult.matches[2].originalStart = 1


\* the reference tokens start+1 .. start+span as written, joined by spaces
VerbatimSpan(start, span) ==
    JoinWith(SubSeq(tokenizeOriginal(originalText), start + 1, start + span), <<" ">>)

\* C18: the revealedText of every Match is the verbatim original tokens at
\* positions originalStart .. originalStart+originalSpan-1 of the tokenized
\* reference joined by single spaces: not their normalized form, and never
\* empty.
C18_RevealedTextVerbatim ==
    pc = "listening" =>
        \A k \in 1..Len(matchResult.matches) :
            LET m == matchResult.matches[k]
            IN  /\ m.revealedText = VerbatimSpan(m.originalStart, m.originalSpan)
                /\ m.revealedText # <<>>
                /\ (VerbatimSpan(m.originalStart, m.originalSpan)
                        # NormalizedSpan(m.originalStart, m.originalSpan)
                    => m.revealedText # NormalizedSpan(m.originalStart, m.originalSpan))

\* a match of two reference tokens whose verbatim text differs from its
\* normalized text
C18_Witness ==
    /\ pc = "listening"
    /\ \E k \in 1..Len(matchResult.matches) :
          LET m == matchResult.matches[k]
          IN  /\ m.originalSpan = 2
              /\ m.revealedText # NormalizedSpan(m.originalStart, m.originalSpan)


----------------------------------------------------------------------------
(* The tie-break of the alignment table *)

\* the table computeEditDistance built for the alignment in the state
FilledMatrix == computeEditDistance(ReferenceTokens, HypothesisTokens)

\* the operation a cell gets when the diagonal candidate wins ties against
\* the vertical one and the vertical one against the horizontal one
DiagonalThenDeletionThenInsertion(matrix, i, j) ==
    LET isMatch == ReferenceTokens[i] = HypothesisTokens[j]
        substitutionCost == matrix[i - 1, j - 1].cost + (IF isMatch THEN 0 ELSE 1)
        deletionCost == matrix[i - 1, j].cost + 1
        insertionCost == matrix[i, j - 1].cost + 1
    IN  IF substitutionCost <= deletionCost /\ substitutionCost <= insertionCost
        THEN (IF isMatch THEN MATCH ELSE SUBSTITUTION)
        ELSE IF deletionCost <= insertionCost THEN DELETION ELSE INSERTION

\* C19: every filled cell of the alignment table records the cheapest
\* candidate, ties broken diagonal (match/substitution) over vertical
\* (deletion) over horizontal (insertion): when deletion and insertion cost
\* the same and less than the diagonal the cell records Deletion, as at
\* cell (3,3) of reference [b,a,b] against hypothesis [a,b,a].
C19_TiesPreferDeletionOverInsertion ==
    (pc = "aligned" /\ AlignReturned) =>
        /\ \A i \in 1..Len(ReferenceTokens), j \in 1..Len(HypothesisTokens) :
              FilledMatrix[i, j].operation
                  = DiagonalThenDeletionThenInsertion(FilledMatrix, i, j)
        /\ (ReferenceTokens = <<"b", "a", "b">> /\ HypothesisTokens = <<"a", "b", "a">>)
              => FilledMatrix[3, 3].operation = DELETION


----------------------------------------------------------------------------
(* The threshold test of the recitation matcher *)

\* some candidate at the pointer scores at least the threshold for the new token
NewTokenReachesThreshold ==
    \E span \in SpansAt(matchResult.finalOriginalPointer) :
        FracLeq(threshold,
                similarity(NewToken, NormalizedSpan(matchResult.finalOriginalPointer, span)))

\* C20: the match test is >= on the unrounded similarity: a transcript
\* token whose best candidate similarity equals the threshold (or exceeds
\* it) is recorded as a Match and advances the pointer; one whose best
\* similarity is strictly smaller is recorded as unmatched.
C20_ThresholdIsInclusive ==
    [][(/\ pc = "listening"
        /\ transcriptTokens' # transcriptTokens
        /\ matchResult.finalOriginalPointer < TokenCount) =>
          IF NewTokenReachesThreshold
          THEN /\ Len(matchResult'.matches) = Len(matchResult.matches) + 1
               /\ matchResult'.matches[Len(matchResult'.matches)].transcriptIndex
                     = Len(transcriptTokens)
               /\ matchResult'.finalOriginalPointer > matchResult.finalOriginalPointer
               /\ matchResult'.unmatchedTranscriptIndices
                     = matchResult.unmatchedTranscriptIndices
          ELSE /\ matchResult'.matches = matchResult.matches
               /\ matchResult'.finalOriginalPointer = matchResult.finalOriginalPointer
               /\ matchResult'.unmatchedTranscriptIndices =
                     Append(matchResult.unmatchedTranscriptIndices, Len(transcriptTokens))]_vars

\* "c" has matched "ca" with a similarity of exactly the threshold 0.5
C20_Witness ==
    /\ pc = "listening"
    /\ originalText = EdgeOriginal
    /\ threshold = Frac(1, 2)
    /\ Len(matchResult.matches) >= 1
    /\ matchResult.matches[1].transcriptIndex = 0
    /\ FracEq(matchResult.matches[1].similarity, threshold)
    /\ FracEq(similarity(<<"c">>, <<"c", "a">>), threshold)


----------------------------------------------------------------------------
(* The choice among the candidate spans *)

\* the similarity of transcript token number i (from 0) to the span of
\* reference tokens at pointer j
ScoreOf(i, j, span) ==
    similarity(NormalizeFn(useArabicNormalization, transcriptTokens[i + 1]),
               NormalizedSpan(j, span))

\* C21: among the up to three candidate spans at the pointer (those that do
\* not run past the last reference token) a Match takes the one of highest
\* similarity and, on an exact tie, the smallest: no fitting span scores
\* more, and no shorter span scores as much.
C21_HighestSimilaritySmallestSpan ==
    pc = "listening" =>
        \A k \in 1..Len(matchResult.matches) :
            LET m == matchResult.matches[k]
                chosen == ScoreOf(m.transcriptIndex, m.originalStart, m.originalSpan)
            IN  /\ m.originalSpan \in SpansAt(m.originalStart)
                /\ \A span \in SpansAt(m.originalStart) :
                      /\ FracLeq(ScoreOf(m.transcriptIndex, m.originalStart, span), chosen)
                      /\ (span < m.originalSpan =>
                            FracLess(ScoreOf(m.transcriptIndex, m.originalStart, span), chosen))

\* a Match of one token where the span of two tokens scored exactly the same
C21_Witness ==
    /\ pc = "listening"
    /\ \E k \in 1..Len(matchResult.matches) :
          LET m == matchResult.matches[k]
          IN  /\ m.originalSpan = 1
              /\ 2 \in SpansAt(m.originalStart)
              /\ FracEq(ScoreOf(m.transcriptIndex, m.originalStart, 1),
                        ScoreOf(m.transcriptIndex, m.originalStart, 2))


----------------------------------------------------------------------------
(* The distance function on its own *)

\* damerauLevenshtein(simA, simB)
Distance ==
    /\ pc = "simReady"
    /\ distResult' = damerauLevenshtein(simA, simB)
    /\ pc' = "distDone"
    /\ UNCHANGED <<simA, simB, simResult, alignVars, matchVars,
                 pageVars, speechVars>>

SpecDistance == InitSim /\ [][Distance]_vars

SetMin(S) == CHOOSE x \in S : \A y \in S : x <= y

\* the optimal-string-alignment distance of the first i characters of a and
\* the first j of b: insertion, deletion, substitution and the swap of two
\* adjacent characters cost 1 each, and nothing is edited twice
RECURSIVE OSA(_, _, _, _)
OSA(a, b, i, j) ==
    IF i = 0 THEN j
    ELSE IF j = 0 THEN i
    ELSE SetMin({OSA(a, b, i - 1, j) + 1,
                 OSA(a, b, i, j - 1) + 1,
                 OSA(a, b, i - 1, j - 1) + (IF a[i] = b[j] THEN 0 ELSE 1)}
                \cup (IF i > 1 /\ j > 1 /\ a[i] = b[j - 1] /\ a[i - 1] = b[j]
                      THEN {OSA(a, b, i - 2, j - 2) + 1}
                      ELSE {}))

\* C22: damerauLevenshtein(a, b) is the optimal-string-alignment distance
\* (so "ca" to "abc" is 3, not 2); distance(empty, s) = |s|, distance(s, s)
\* = 0, and the result is symmetric and at most max(|a|, |b|).
C22_DistanceIsOSA ==
    pc = "distDone" =>
        /\ distResult = OSA(simA, simB, Len(simA), Len(simB))
        /\ (simA = <<"c", "a">> /\ simB = <<"a", "b", "c">> => distResult = 3)
        /\ (simA = <<>> => distResult = Len(simB))
        /\ (simB = <<>> => distResult = Len(simA))
        /\ (simA = simB => distResult = 0)
        /\ distResult = damerauLevenshtein(simB, simA)
        /\ distResult <= Max(Len(simA), Len(simB))

\* "ca" against "abc": 3 by optimal string alignment
C22_Witness ==
    /\ pc = "distDone"
    /\ simA = <<"c", "a">>
    /\ simB = <<"a", "b", "c">>
    /\ distResult = 3


----------------------------------------------------------------------------
(* The character error rate *)

CharWords == {<<"a">>, <<"b">>, <<"c", "d">>}

\* the tokens of an alignment, before their indices are filled in: matches,
\* substitutions, deletions and insertions over CharWords, and two
\* substitutions that lack a side
CharTokens ==
    {[operation |-> MATCH, reference |-> Some(w), hypothesis |-> Some(w)] : w \in CharWords}
    \cup {[operation |-> SUBSTITUTION, reference |-> Some(w[1]), hypothesis |-> Some(w[2])] :
            w \in {p \in CharWords \X CharWords : p[1] # p[2]}}
    \cup {[operation |-> DELETION, reference |-> Some(w), hypothesis |-> Null] : w \in CharWords}
    \cup {[operation |-> INSERTION, reference |-> Null, hypothesis |-> Some(w)] : w \in CharWords}
    \cup {[operation |-> SUBSTITUTION, reference |-> Some(<<"c", "d">>), hypothesis |-> Null],
          [operation |-> SUBSTITUTION, reference |-> Null, hypothesis |-> Some(<<"a">>)]}

\* the tokens with referenceIndex and hypothesisIndex counted up from i and j
RECURSIVE WithIndices(_, _, _)
WithIndices(tokens, i, j) ==
    IF tokens = <<>> THEN <<>>
    ELSE LET t == Head(tokens)
         IN  <<[operation |-> t.operation,
                reference |-> t.reference,
                hypothesis |-> t.hypothesis,
                referenceIndex |-> IF t.reference = Null THEN Null ELSE Some(i),
                hypothesisIndex |-> IF t.hypothesis = Null THEN Null ELSE Some(j)]>>
             \o WithIndices(Tail(tokens),
                            IF t.reference = Null THEN i ELSE i + 1,
                            IF t.hypothesis = Null THEN j ELSE j + 1)

CharAlignments == {WithIndices(tokens, 0, 0) : tokens \in BoundedSeq(CharTokens, MaxCharOps)}

\* The caller holds an alignment whose character error rate it wants.
InitCER ==
    /\ pc = "givenChars"
    /\ PageIdle
    /\ SpeechIdle
    /\ options = AlignmentEngineConstructor([caseSensitive |-> Null, normalizer |-> Null])
    /\ referenceText = <<>>
    /\ hypothesisText = <<>>
    /\ alignment \in CharAlignments
    /\ metrics = NoMetrics
    /\ cer = Null
    /\ MatcherIdle
    /\ SimilarityIdle

\* TextAligner.calculateCER(alignment)
CalculateCER ==
    /\ pc = "givenChars"
    /\ cer' = calculateCER(alignment)
    /\ pc' = "charMeasured"
    /\ UNCHANGED <<options, referenceText, hypothesisText, alignment, metrics, matchVars, simVars,
                 pageVars, speechVars>>

SpecCER == InitCER /\ [][CalculateCER]_vars

RECURSIVE SumOver(_, _)
SumOver(F(_), tokens) ==
    IF tokens = <<>> THEN 0 ELSE F(Head(tokens)) + SumOver(F, Tail(tokens))

ReferenceChars(t) == IF t.reference = Null THEN 0 ELSE Len(t.reference[1])

HypothesisChars(t) == IF t.hypothesis = Null THEN 0 ELSE Len(t.hypothesis[1])

\* what a token adds to errorChars
ErrorChars(t) ==
    CASE t.operation = SUBSTITUTION -> Max(ReferenceChars(t), HypothesisChars(t))
      [] t.operation = DELETION -> ReferenceChars(t)
      [] t.operation = INSERTION -> HypothesisChars(t)
      [] t.operation = MATCH -> 0

\* C23: calculateCER returns errorChars / totalChars, totalChars the summed
\* length of the reference tokens and errorChars adding max(len(ref),
\* len(hyp)) per Substitution, len(ref) per Deletion, len(hyp) per Insertion
\* and nothing per Match; 0 when totalChars is 0.
C23_CERFormula ==
    pc = "charMeasured" =>
        LET totalChars == SumOver(ReferenceChars, alignment)
            errorChars == SumOver(ErrorChars, alignment)
        IN  /\ totalChars > 0 =>
                 /\ cer.den > 0
                 /\ cer.num * totalChars = errorChars * cer.den
            /\ totalChars = 0 => cer.num = 0 /\ cer.den > 0

\* a substitution of a shorter word by a longer one, next to a match
C23_Witness ==
    /\ pc = "charMeasured"
    /\ Len(alignment) = 2
    /\ alignment[1].operation = MATCH
    /\ alignment[2].operation = SUBSTITUTION
    /\ alignment[2].reference = Some(<<"a">>)
    /\ alignment[2].hypothesis = Some(<<"c", "d">>)
    /\ FracEq(cer, Frac(2, 2))


----------------------------------------------------------------------------
(* Whole results of the recitation matcher *)

\* the transcript has one token per reference token, each equal to its
\* reference token after normalization
PerfectRecitation ==
    /\ Len(transcriptTokens) = TokenCount
    /\ \A k \in 1..TokenCount :
          NormalizeFn(useArabicNormalization, transcriptTokens[k])
              = NormalizeFn(useArabicNormalization, tokenizeOriginal(originalText)[k])

\* C24: when the transcript has one token per reference token and each
\* equals its reference token after normalization, every transcript token
\* matches with span 1 and similarity 1, no index is unmatched and
\* finalOriginalPointer is the reference token count, at any threshold <= 1.
C24_PerfectRecitationRevealsAll ==
    (pc = "listening" /\ PerfectRecitation) =>
        /\ Len(matchResult.matches) = TokenCount
        /\ \A k \in 1..Len(matchResult.matches) :
              /\ matchResult.matches[k].transcriptIndex = k - 1
              /\ matchResult.matches[k].originalStart = k - 1
              /\ matchResult.matches[k].originalSpan = 1
              /\ FracEq(matchResult.matches[k].similarity, Frac(1, 1))
        /\ matchResult.unmatchedTranscriptIndices = <<>>
        /\ matchResult.finalOriginalPointer = TokenCount

\* "to be or not to be" recited word for word at threshold 1
C24_Witness ==
    /\ pc = "listening"
    /\ originalText = RepeatedOriginal
    /\ transcriptTokens = RepeatedTranscript
    /\ threshold = Frac(1, 1)
    /\ PerfectRecitation
    /\ matchResult.finalOriginalPointer = 6


\* the sum of the spans of the first n matches
SpanSum(result, n) ==
    LET Sum[k \in 0..n] == IF k = 0 THEN 0 ELSE Sum[k - 1] + result.matches[k].originalSpan
    IN  Sum[n]

\* C25: revealedTokenMask has the length of the reference token count and
\* mask[k] holds exactly for k below finalOriginalPointer, which is the sum
\* of all Match spans and at most the token count; unrevealedOriginal is the
\* reference tokens from finalOriginalPointer onward, in order.
C25_RevealedIsContiguousPrefix ==
    pc = "listening" =>
        LET tokens == tokenizeOriginal(originalText)
            p == matchResult.finalOriginalPointer
        IN  /\ Len(matchResult.revealedTokenMask) = Len(tokens)
            /\ \A k \in 1..Len(tokens) : matchResult.revealedTokenMask[k] <=> (k - 1 < p)
            /\ p = SpanSum(matchResult, Len(matchResult.matches))
            /\ p <= Len(tokens)
            /\ matchResult.unrevealedOriginal = SubSeq(tokens, p + 1, Len(tokens))
            /\ Len(matchResult.unrevealedOriginal) = Len(tokens) - p

\* a two-word match has revealed part of a three-word reference
C25_Witness ==
    /\ pc = "listening"
    /\ TokenCount = 3
    /\ matchResult.finalOriginalPointer = 2
    /\ \E k \in 1..Len(matchResult.matches) : matchResult.matches[k].originalSpan = 2
    /\ Len(matchResult.unrevealedOriginal) = 1

\* the transcript indices that appear in a sequence of indices
IndexSet(indices) == {indices[k] : k \in 1..Len(indices)}

StrictlyIncreasing(indices) ==
    \A k \in 1..Len(indices) - 1 : indices[k] < indices[k + 1]

MatchedIndices(result) ==
    [k \in 1..Len(result.matches) |-> result.matches[k].transcriptIndex]

\* C26: every transcript index is the transcriptIndex of exactly one Match
\* or is in unmatchedTranscriptIndices, never both; both lists are strictly
\* increasing and their lengths add up to the transcript length.
C26_TranscriptIndicesPartitioned ==
    pc = "listening" =>
        LET matched == MatchedIndices(matchResult)
            unmatched == matchResult.unmatchedTranscriptIndices
        IN  /\ IndexSet(matched) \cup IndexSet(unmatched) = 0..(Len(transcriptTokens) - 1)
            /\ IndexSet(matched) \cap IndexSet(unmatched) = {}
            /\ StrictlyIncreasing(matched)
            /\ StrictlyIncreasing(unmatched)
            /\ Len(matched) + Len(unmatched) = Len(transcriptTokens)

\* a transcript with a match between two unmatched tokens, the last one heard
\* after the reference was exhausted
C26_Witness ==
    /\ pc = "listening"
    /\ Len(transcriptTokens) = 3
    /\ MatchedIndices(matchResult) = <<1>>
    /\ matchResult.unmatchedTranscriptIndices = <<0, 2>>
    /\ matchResult.finalOriginalPointer = TokenCount


----------------------------------------------------------------------------
(* SpeechRecognitionService *)

\* Array.prototype.join(' ')
RECURSIVE JoinWords(_)
JoinWords(words) ==
    IF words = <<>> THEN <<>>
    ELSE IF Len(words) = 1 THEN words[1]
    ELSE words[1] \o <<" ">> \o JoinWords(Tail(words))

\* Array.prototype.slice(0, n)
SliceTo(words, n) == SubSeq(words, 1, Min(n, Len(words)))

\* text.replace(/[U+064B-U+065F U+0670]/g, '')
removeDiacritics(text) == SelectSeq(text, LAMBDA c : ~IsArabicDiacritic(c))

\* the characters of U+0621..U+063A and U+0641..U+064A
IsArabicLetter(c) ==
    c \in {"alef", "alef_madda", "alef_hamza_above", "alef_hamza_below",
           "waw_hamza", "yeh_hamza", "teh_marbuta", "heh", "waw", "yeh",
           "alef_maksura"}

\* diacritics removed, alef, ta marbuta and alef maksura folded, everything
\* but Arabic letters and whitespace deleted, then trimmed
normalizeArabicText(text) ==
    Trim(SelectSeq(MapSeq(FoldAlefTaYa, removeDiacritics(text)),
                   LAMBDA c : IsArabicLetter(c) \/ IsWhitespace(c)))

\* checkWords: the lastCorrectIndex and accumulatedTranscript it leaves
checkWords(transcript, isFinal, target, lastCorrect, accumulated) ==
    LET transcriptWords == SplitWhitespace(Trim(normalizeArabicText(transcript)))
        targetWords == SplitWhitespace(Trim(normalizeArabicText(target)))
        originalWords == SplitWhitespace(Trim(transcript))
        IsCorrect(i) ==
            /\ i < Len(targetWords)
            /\ normalizeArabicText(transcriptWords[i + 1]) = targetWords[i + 1]
        finalCorrect ==
            {i \in (lastCorrect + 1)..(Len(transcriptWords) - 1) : IsCorrect(i) /\ isFinal}
        newLastCorrectIndex ==
            IF finalCorrect = {} THEN lastCorrect
            ELSE CHOOSE i \in finalCorrect : \A k \in finalCorrect : k <= i
    IN  IF isFinal /\ newLastCorrectIndex > lastCorrect
        THEN [lastCorrectIndex |-> newLastCorrectIndex,
              accumulatedTranscript |->
                  JoinWords(SliceTo(originalWords, newLastCorrectIndex + 1))]
        ELSE [lastCorrectIndex |-> lastCorrect, accumulatedTranscript |-> accumulated]

\* the states of a recognizer's session: none, started, stop() called and the
\* end event still to come, an error reported and the end event still to come
SessionStates == {"idle", "active", "stopping", "failed"}

\* a session has started and its end event has not fired
SessionRunning == recognition # Null /\ recognition[1] # "idle"

\* recognition.start(): starts a session; on a session that has not ended
\* it raises InvalidStateError and changes nothing
RecognitionStart(session) ==
    IF session # "idle"
    THEN [session |-> session, raised |-> TRUE]
    ELSE [session |-> "active", raised |-> FALSE]

\* recognition.stop(): the session ends later, with its end event
RecognitionStop(session) == IF session = "active" THEN "stopping" ELSE session

\* the target texts set by the practice page
TargetTexts ==
    {<<"alef_hamza_above", "fatha", " ", "heh">>,
     <<"yeh", " ", "waw", " ", "teh_marbuta">>}

\* what the recognizer reports in one result event
SpokenTexts ==
    {<<>>, <<"alef">>, <<"alef", " ", "heh">>, <<"heh">>, <<"yeh">>,
     <<"waw", " ", "heh">>, <<"a", " ", "yeh">>}

\* the error codes of the recognizer's error event
ErrorCodes == {"no-speech", "network"}

\* resetProgress
resetProgress ==
    /\ lastCorrectIndex' = -1
    /\ accumulatedTranscript' = <<>>

\* stop()
stop ==
    IF recognition # Null
    THEN /\ recognition' = Some(RecognitionStop(recognition[1]))
         /\ isListening' = FALSE
    ELSE UNCHANGED <<recognition, isListening>>

\* reset()
reset ==
    /\ resetProgress
    /\ stop

\* The page builds the service; webkitSpeechRecognition may be missing.
InitSpeech ==
    /\ pc = "serviceReady"
    /\ recognition \in {Null, Some("idle")}
    /\ isListening = FALSE
    /\ targetText = <<>>
    /\ lastCorrectIndex = -1
    /\ accumulatedTranscript = <<>>
    /\ startedWhileActive = FALSE
    /\ PageIdle
    /\ AlignerIdle
    /\ MatcherIdle
    /\ SimilarityIdle

SetTargetText ==
    \E text \in TargetTexts :
        /\ pc' = "setTargetText"
        /\ targetText' = text
        /\ resetProgress
        /\ UNCHANGED <<recognition, isListening, startedWhileActive,
                       alignVars, matchVars, simVars, pageVars>>

\* start(): isListening becomes true unless recognition.start() raised
ServiceStart ==
    /\ pc' = "start"
    /\ IF recognition # Null
       THEN LET started == RecognitionStart(recognition[1])
            IN  /\ recognition' = Some(started.session)
                /\ startedWhileActive' = (startedWhileActive \/ started.raised)
                /\ isListening' = IF started.raised THEN isListening ELSE TRUE
       ELSE UNCHANGED <<recognition, isListening, startedWhileActive>>
    /\ UNCHANGED <<targetText, lastCorrectIndex, accumulatedTranscript,
                   alignVars, matchVars, simVars, pageVars>>

ServiceStop ==
    /\ pc' = "stop"
    /\ stop
    /\ UNCHANGED <<targetText, lastCorrectIndex, accumulatedTranscript,
                   startedWhileActive, alignVars, matchVars, simVars, pageVars>>

ServiceReset ==
    /\ pc' = "reset"
    /\ reset
    /\ UNCHANGED <<targetText, startedWhileActive, alignVars, matchVars, simVars, pageVars>>

\* recognition.onresult: a result event of a running session
OnResult ==
    /\ SessionRunning
    /\ recognition[1] # "failed"
    /\ \E spoken \in SpokenTexts, isFinal \in BOOLEAN :
          LET fullTranscript ==
                  accumulatedTranscript
                      \o (IF accumulatedTranscript # <<>> /\ spoken # <<>>
                          THEN <<" ">> ELSE <<>>)
                      \o spoken
              checked == checkWords(fullTranscript, isFinal, targetText,
                                    lastCorrectIndex, accumulatedTranscript)
          IN  /\ lastCorrectIndex' = checked.lastCorrectIndex
              /\ accumulatedTranscript' = checked.accumulatedTranscript
    /\ pc' = "onresult"
    /\ UNCHANGED <<recognition, isListening, targetText, startedWhileActive,
                   alignVars, matchVars, simVars, pageVars>>

\* recognition.onerror: the session reports an error, its end event still to
\* come; 'no-speech' restarts while listening, any other error stops
OnError ==
    /\ SessionRunning
    /\ recognition[1] # "failed"
    /\ \E error \in ErrorCodes :
          IF error = "no-speech"
          THEN IF isListening
               THEN LET started == RecognitionStart("failed")
                    IN  /\ recognition' = Some(started.session)
                        /\ startedWhileActive' = (startedWhileActive \/ started.raised)
                        /\ UNCHANGED isListening
               ELSE /\ recognition' = Some("failed")
                    /\ UNCHANGED <<isListening, startedWhileActive>>
          ELSE /\ recognition' = Some(RecognitionStop("failed"))
               /\ isListening' = FALSE
               /\ UNCHANGED startedWhileActive
    /\ pc' = "onerror"
    /\ UNCHANGED <<targetText, lastCorrectIndex, accumulatedTranscript,
                   alignVars, matchVars, simVars, pageVars>>

\* recognition.onend: the session has ended; restart while listening
OnEnd ==
    /\ SessionRunning
    /\ IF isListening
       THEN LET started == RecognitionStart("idle")
            IN  /\ recognition' = Some(started.session)
                /\ startedWhileActive' = (startedWhileActive \/ started.raised)
       ELSE /\ recognition' = Some("idle")
            /\ UNCHANGED startedWhileActive
    /\ pc' = "onend"
    /\ UNCHANGED <<isListening, targetText, lastCorrectIndex, accumulatedTranscript,
                   alignVars, matchVars, simVars, pageVars>>

NextSpeech ==
    \/ SetTargetText
    \/ ServiceStart
    \/ ServiceStop
    \/ ServiceReset
    \/ OnResult
    \/ OnError
    \/ OnEnd

SpecSpeech == InitSpeech /\ [][NextSpeech]_vars

\* C30: for every interleaving of start(), stop() and reset() with the
\* recognizer's result, error and end events, recognition.start() is never
\* called on a session whose end event has not fired, and an end event that
\* arrives after stop() has run (directly or through an error other than
\* 'no-speech') does not restart the recognizer.
C30_NeverStartedWhileActive ==
    /\ [](~startedWhileActive)
    /\ [][(pc' = "onend" /\ ~isListening) => recognition' = Some("idle")]_vars


----------------------------------------------------------------------------
(* MemorizationDetailPage: the practice handlers *)

\* longest transcript the page is handed, in tokens
MaxHeard == 3

SIMILARITY_THRESHOLD == Frac(30, 100)

MAX_ATTEMPTS_BEFORE_SKIP == 3

\* the page's fields as one record
PageState ==
    [item |-> item,
     currentTranscript |-> currentTranscript,
     accuracy |-> accuracy,
     revealedWords |-> revealedWords,
     canSkipWord |-> canSkipWord,
     failedAttempts |-> failedAttempts,
     matchResult |-> pageMatchResult,
     lastTranscriptLength |-> lastTranscriptLength]

\* words.map((word, index) => ({word, isRevealed: false, isCorrect: false, index}))
HiddenWords(content) ==
    LET words == tokenizeOriginal(content)
    IN  [k \in 1..Len(words) |->
            [word |-> words[k], isRevealed |-> FALSE, isCorrect |-> FALSE, index |-> k - 1]]

\* initializeRevealedWords
initializeRevealedWords(page) ==
    IF page.item = Null THEN page
    ELSE [page EXCEPT !.matchResult = Null,
                      !.failedAttempts = 0,
                      !.lastTranscriptLength = 0,
                      !.canSkipWord = FALSE,
                      !.revealedWords = HiddenWords(page.item[1].content)]

\* this.revealedWords.filter(w => w.isRevealed).length
RevealedCount(words) == Cardinality({k \in DOMAIN words : words[k].isRevealed})

\* this.revealedWords.findIndex(w => !w.isRevealed), -1 when there is none
FirstUnrevealed(words) ==
    LET hidden == {k \in DOMAIN words : ~words[k].isRevealed}
    IN  IF hidden = {} THEN -1
        ELSE (CHOOSE k \in hidden : \A h \in hidden : k <= h) - 1

\* calculateAccuracy: the share of revealed words that are correct, in percent
calculateAccuracy(words) ==
    LET revealedCount == RevealedCount(words)
        correctCount ==
            Cardinality({k \in DOMAIN words : words[k].isRevealed /\ words[k].isCorrect})
    IN  IF revealedCount = 0 THEN Frac(0, 1) ELSE Frac(correctCount * 100, revealedCount)

\* MarkRevealed that copies the mask into the flags
MarkRevealed_CopiesMask(words, mask) ==
    [k \in DOMAIN words |->
        [words[k] EXCEPT !.isRevealed = mask[k], !.isCorrect = mask[k]]]

\* the loop of updateRevealedWords over revealedTokenMask
MarkRevealed(words, mask) ==
    [k \in DOMAIN words |->
        IF mask[k]
        THEN [words[k] EXCEPT !.isRevealed = TRUE, !.isCorrect = TRUE]
        ELSE words[k]]

\* transcript.trim().split(/\s+/).filter(t => t.length > 0)
HeardTokens(transcript) == FilterNonEmpty(SplitWhitespace(Trim(transcript)))

\* updateRevealedWords from the match result on: the flags, and the
\* failed-attempt tracking
RecordMatch(page, heard, result) ==
    LET content == page.item[1].content
        previousRevealedCount == RevealedCount(page.revealedWords)
        originalTokens == tokenizeOriginal(content)
        words == MarkRevealed(IF Len(page.revealedWords) # Len(originalTokens)
                              THEN HiddenWords(content)
                              ELSE page.revealedWords,
                              result.revealedTokenMask)
        currentRevealedCount == RevealedCount(words)
        transcriptChanged == Len(heard) > page.lastTranscriptLength
        failed == /\ transcriptChanged
                  /\ currentRevealedCount = previousRevealedCount
                  /\ currentRevealedCount < Len(words)
        progressed == /\ transcriptChanged
                      /\ ~failed
                      /\ currentRevealedCount > previousRevealedCount
    IN  [page EXCEPT
           !.matchResult = Some(result),
           !.revealedWords = words,
           !.failedAttempts = IF failed THEN @ + 1 ELSE IF progressed THEN 0 ELSE @,
           !.canSkipWord =
               IF failed
               THEN (IF page.failedAttempts + 1 >= MAX_ATTEMPTS_BEFORE_SKIP
                     THEN TRUE ELSE @)
               ELSE IF progressed THEN FALSE ELSE @,
           !.lastTranscriptLength = IF transcriptChanged THEN Len(heard) ELSE @]

\* updateRevealedWords
updateRevealedWords(page, transcript) ==
    IF page.item = Null \/ transcript = <<>> THEN page
    ELSE RecordMatch(page, HeardTokens(transcript),
                     matchRecitation(page.item[1].content, HeardTokens(transcript),
                                     SIMILARITY_THRESHOLD, TRUE))

\* this.accuracy = this.calculateAccuracy(...)
WithAccuracy(page) == [page EXCEPT !.accuracy = calculateAccuracy(page.revealedWords)]

\* the subscriber of transcriptSubject
onTranscript(page, transcript) ==
    IF page.item = Null THEN [page EXCEPT !.currentTranscript = transcript]
    ELSE WithAccuracy(updateRevealedWords([page EXCEPT !.currentTranscript = transcript],
                                          transcript))

\* skipCurrentWord
skipCurrentWord(page) ==
    IF ~page.canSkipWord THEN page
    ELSE LET nextUnrevealedIndex == FirstUnrevealed(page.revealedWords)
         IN  IF nextUnrevealedIndex = -1 THEN page
             ELSE LET words == [page.revealedWords EXCEPT
                                   ![nextUnrevealedIndex + 1].isRevealed = TRUE,
                                   ![nextUnrevealedIndex + 1].isCorrect = FALSE]
                  IN  [page EXCEPT
                         !.revealedWords = words,
                         !.failedAttempts = 0,
                         !.canSkipWord = FALSE,
                         !.accuracy = IF page.item # Null
                                      THEN calculateAccuracy(words) ELSE @]

\* resetPractice, but for its call of the service's reset()
resetPractice(page) ==
    initializeRevealedWords(
        [page EXCEPT !.currentTranscript = <<>>,
                     !.accuracy = Frac(0, 1),
                     !.matchResult = Null,
                     !.failedAttempts = 0,
                     !.lastTranscriptLength = 0,
                     !.canSkipWord = FALSE])

\* the page's fields become those of the record
PageBecomes(page) ==
    /\ item' = page.item
    /\ currentTranscript' = page.currentTranscript
    /\ accuracy' = page.accuracy
    /\ revealedWords' = page.revealedWords
    /\ canSkipWord' = page.canSkipWord
    /\ failedAttempts' = page.failedAttempts
    /\ pageMatchResult' = page.matchResult
    /\ lastTranscriptLength' = page.lastTranscriptLength

\* the contents of the items practised
PageContents == {<<"a", " ", "a", " ", "a">>, <<"A", ",", " ", "b">>}

\* the words the recognizer hears
HeardWords == {<<"a">>, <<"x">>}

\* the transcripts the service hands to the page: up to MaxHeard words, and
\* one of whitespace only
PageTranscripts ==
    {JoinWords(ws) : ws \in BoundedSeq(HeardWords, MaxHeard)} \cup {<<" ">>}

\* ngOnInit has run: the item, if found, is loaded, handed to the service as
\* target text, and its words are hidden
InitPage ==
    /\ pc = "pageReady"
    /\ item \in {Null} \cup {Some([content |-> c]) : c \in PageContents}
    /\ currentTranscript = <<>>
    /\ accuracy = Frac(0, 1)
    /\ revealedWords = IF item = Null THEN <<>> ELSE HiddenWords(item[1].content)
    /\ canSkipWord = FALSE
    /\ failedAttempts = 0
    /\ pageMatchResult = Null
    /\ lastTranscriptLength = 0
    /\ recognition = Some("idle")
    /\ isListening = FALSE
    /\ targetText = IF item = Null THEN <<>> ELSE item[1].content
    /\ lastCorrectIndex = -1
    /\ accumulatedTranscript = <<>>
    /\ startedWhileActive = FALSE
    /\ AlignerIdle
    /\ MatcherIdle
    /\ SimilarityIdle

\* the service emits a transcript
TranscriptUpdate ==
    \E transcript \in PageTranscripts :
        /\ pc' = "transcript"
        /\ \E page \in {onTranscript(PageState, transcript)} : PageBecomes(page)
        /\ UNCHANGED <<alignVars, matchVars, simVars, speechVars>>

SkipCurrentWord ==
    /\ pc' = "skipCurrentWord"
    /\ \E page \in {skipCurrentWord(PageState)} : PageBecomes(page)
    /\ UNCHANGED <<alignVars, matchVars, simVars, speechVars>>

ResetPractice ==
    /\ pc' = "resetPractice"
    /\ \E page \in {resetPractice(PageState)} : PageBecomes(page)
    /\ reset
    /\ UNCHANGED <<targetText, startedWhileActive, alignVars, matchVars, simVars>>

NextPage == TranscriptUpdate \/ SkipCurrentWord \/ ResetPractice

SpecPage == InitPage /\ [][NextPage]_vars

----------------------------------------------------------------------------
(* Properties of the practice page *)

\* C27: between two resets a word's isRevealed flag never goes from true to
\* false and the number of revealed words never decreases, whatever
\* transcripts arrive (shorter ones and ones that change earlier words
\* included) and however skipCurrentWord is interleaved.
C27_RevealedNeverHidden ==
    [][pc' # "resetPractice" =>
          /\ Len(revealedWords') = Len(revealedWords)
          /\ \A k \in DOMAIN revealedWords :
                revealedWords[k].isRevealed => revealedWords'[k].isRevealed
          /\ RevealedCount(revealedWords') >= RevealedCount(revealedWords)]_vars

\* after a shorter transcript, a word matched earlier is still revealed
\* although the latest mask does not cover it
C27_Witness ==
    /\ pc = "transcript"
    /\ pageMatchResult # Null
    /\ \E k \in DOMAIN revealedWords :
          /\ revealedWords[k].isRevealed
          /\ revealedWords[k].isCorrect
          /\ ~pageMatchResult[1].revealedTokenMask[k]

\* C28: skipCurrentWord marks the word it reveals as isRevealed and not
\* isCorrect, and a word that is revealed and not correct stays not correct
\* through every later transcript update until resetPractice.
C28_SkippedStaysIncorrect ==
    [][/\ (pc' = "skipCurrentWord" /\ canSkipWord /\ FirstUnrevealed(revealedWords) # -1) =>
              LET k == FirstUnrevealed(revealedWords) + 1
              IN  revealedWords'[k].isRevealed /\ ~revealedWords'[k].isCorrect
       /\ pc' # "resetPractice" =>
              \A k \in DOMAIN revealedWords :
                  (revealedWords[k].isRevealed /\ ~revealedWords[k].isCorrect)
                      => (k \in DOMAIN revealedWords' /\ ~revealedWords'[k].isCorrect)]_vars

\* C29: canSkipWord turns true only in a transcript update that adds tokens,
\* reveals nothing new and brings failedAttempts to MAX_ATTEMPTS_BEFORE_SKIP
\* or more; every update that reveals a new word sets failedAttempts to 0 and
\* canSkipWord to false; skipCurrentWord changes nothing unless canSkipWord
\* holds.
C29_SkipOnlyAfterConsecutiveFailures ==
    [][/\ (~canSkipWord /\ canSkipWord') =>
              /\ pc' = "transcript"
              /\ Len(HeardTokens(currentTranscript')) > lastTranscriptLength
              /\ RevealedCount(revealedWords') = RevealedCount(revealedWords)
              /\ failedAttempts' >= MAX_ATTEMPTS_BEFORE_SKIP
       /\ (pc' = "transcript" /\ RevealedCount(revealedWords') > RevealedCount(revealedWords)) =>
              (failedAttempts' = 0 /\ ~canSkipWord')
       /\ (pc' = "skipCurrentWord" /\ ~canSkipWord) => UNCHANGED pageVars]_vars

====
